---- MODULE Spec2Model ----
(***************************************************************************)
(* Model of the checklist application in src/src/App.tsx: the ordering     *)
(* engine (sortUncheckedFirst, reorderByInsert, reorderAndUncheck), the    *)
(* history manager of usePersistentState (pushHistory, undo, redo), the    *)
(* document mutations of App and the pointer-driven drag gesture           *)
(* controller (onPointerDownHandle, startDrag, onPointerMove, onPointerUp, *)
(* onPointerCancel, updatePlaceholder, finalizePlaceholder).               *)
(*                                                                         *)
(* Optional values of the source (T | undefined, T | null) are sequences   *)
(* of length at most one: <<>> is undefined/null, <<v>> is the value v.    *)
(***************************************************************************)
EXTENDS Integers, Sequences, FiniteSets, TLC

\* ------------------------------------------------------------------ bounds
\* ids that uid() can hand out in one run (ids are 1..MaxIds)
MaxIds == 4
\* user operations on the document or the history in one run of Spec
MaxOps == 3
\* longest item sequence given to the pure functions in SpecPure
MaxLen == 3
\* number of typing/undo/redo steps beyond HISTORY_LIMIT in SpecHist
MaxExtra == 2
\* click suppressors a second press during a gesture may leave behind
MaxLeaks == 1
\* a paste puts the caret at 0..MaxCaret
MaxCaret == 1
\* pointer moves go to y = 0, YStep, ..., MaxYSteps * YStep
MaxYSteps == 3

\* --------------------------------------------------------------- constants
HISTORY_LIMIT == 10
ROW_SPACING == 6
ROW_H == 44
\* navigator.maxTouchPoints || "ontouchstart" in window ? 2 : 6 (mouse device)
DRAG_START_PX == 6

\* ------------------------------------------------------------------- types
Ids == 1..MaxIds
Texts == {"", "a"}
\* what the clipboard may hold
Pastes == {"a\na", "\na"}
Undefined == <<>>

Max(a, b) == IF a >= b THEN a ELSE b
Min(a, b) == IF a <= b THEN a ELSE b
Range(s) == {s[i] : i \in DOMAIN s}
\* Array.prototype.includes
Includes(s, x) == \E i \in DOMAIN s : s[i] = x
\* Array.prototype.findIndex, 1-based; 0 stands for the source's -1
FindIndex(items, id) ==
    IF \E i \in DOMAIN items : items[i].id = id
    THEN CHOOSE i \in DOMAIN items :
            /\ items[i].id = id
            /\ \A j \in 1..(i - 1) : items[j].id # id
    ELSE 0

\* { id, text, checked: false } as uid()-created items are written
NewItem(id, text) ==
    [id |-> id, text |-> text, checked |-> FALSE,
     selected |-> Undefined, checkedAt |-> Undefined]

\* ---------------------------------------------------------- ordering engine
\* x._checkedAt ?? 0
CheckedAtOrZero(it) == IF it.checkedAt = Undefined THEN 0 ELSE it.checkedAt[1]

\* the sort step of an unstable sort: x goes before the elements of equal key
InsertByCheckedAt_BeforeEqual(sorted, x) ==
    LET le == SelectSeq(sorted, LAMBDA y : CheckedAtOrZero(y) < CheckedAtOrZero(x))
        gt == SelectSeq(sorted, LAMBDA y : CheckedAtOrZero(y) >= CheckedAtOrZero(x))
    IN  le \o <<x>> \o gt

\* one step of a stable ascending sort: x goes after every element whose key
\* is not greater than its own
RECURSIVE InsertByCheckedAt(_, _)
InsertByCheckedAt(sorted, x) ==
    IF sorted = <<>> THEN <<x>>
    ELSE IF CheckedAtOrZero(Head(sorted)) - CheckedAtOrZero(x) <= 0
         THEN <<Head(sorted)>> \o InsertByCheckedAt(Tail(sorted), x)
         ELSE <<x>> \o sorted

\* b.sort((x, y) => (x._checkedAt ?? 0) - (y._checkedAt ?? 0)), which is stable
RECURSIVE SortByCheckedAt(_)
SortByCheckedAt(b) ==
    IF b = <<>> THEN <<>>
    ELSE InsertByCheckedAt(SortByCheckedAt(SubSeq(b, 1, Len(b) - 1)), b[Len(b)])

sortUncheckedFirst(items) ==
    LET a == SelectSeq(items, LAMBDA it : ~it.checked)
        b == SelectSeq(items, LAMBDA it : it.checked)
    IN  a \o SortByCheckedAt(b)

\* reorderByInsert with the block appended instead of inserted at pos
reorderByInsert_BlockLast(items, draggingIds, insertAt) ==
    SelectSeq(items, LAMBDA i : ~Includes(draggingIds, i.id))
        \o SelectSeq(items, LAMBDA i : Includes(draggingIds, i.id))

\* reorderByInsert with slice()'s reading of a negative index, counted from
\* the end, instead of the clamp to 0
reorderByInsert_NoLowerClamp(items, draggingIds, insertAt) ==
    LET moving == SelectSeq(items, LAMBDA i : Includes(draggingIds, i.id))
        rest == SelectSeq(items, LAMBDA i : ~Includes(draggingIds, i.id))
        at == Min(insertAt, Len(rest))
        pos == IF at < 0 THEN Max(0, Len(rest) + at) ELSE at
    IN  SubSeq(rest, 1, pos) \o moving \o SubSeq(rest, pos + 1, Len(rest))

reorderByInsert(items, draggingIds, insertAt) ==
    LET moving == SelectSeq(items, LAMBDA i : Includes(draggingIds, i.id))
        rest == SelectSeq(items, LAMBDA i : ~Includes(draggingIds, i.id))
        pos == Max(0, Min(insertAt, Len(rest)))
    IN  SubSeq(rest, 1, pos) \o moving \o SubSeq(rest, pos + 1, Len(rest))

\* reorderAndUncheck that clears the flags of every item, moved or not
reorderAndUncheck_AllItems(items, draggingIds, insertAt) ==
    LET out == reorderByInsert(items, draggingIds, insertAt)
    IN  [k \in DOMAIN out |->
            [out[k] EXCEPT !.checked = FALSE, !.selected = <<FALSE>>]]

reorderAndUncheck(items, draggingIds, insertAt) ==
    LET moved == Range(draggingIds)
        out == reorderByInsert(items, draggingIds, insertAt)
    IN  [k \in DOMAIN out |->
            IF out[k].id \in moved
            THEN [out[k] EXCEPT !.checked = FALSE, !.selected = <<FALSE>>]
            ELSE out[k]]

\* ---------------------------------------------------------------- paste helper
\* the place of the first line feed of s, 0 when it has none
IndexOfLF(s) ==
    IF \E i \in 1..Len(s) : SubSeq(s, i, i) = "\n"
    THEN CHOOSE i \in 1..Len(s) :
            /\ SubSeq(s, i, i) = "\n"
            /\ \A j \in 1..(i - 1) : SubSeq(s, j, j) # "\n"
    ELSE 0

\* s.split(/\r?\n/)
RECURSIVE SplitLines(_)
SplitLines(s) ==
    LET i == IndexOfLF(s)
    IN  IF i = 0 THEN <<s>>
        ELSE LET line == SubSeq(s, 1, i - 1)
                 cr == Len(line) > 0 /\ SubSeq(line, Len(line), Len(line)) = "\r"
             IN  <<IF cr THEN SubSeq(line, 1, Len(line) - 1) ELSE line>>
                    \o SplitLines(SubSeq(s, i + 1, Len(s)))

\* original.slice(from, to) for 0 <= from, with to clamped to the length
Slice(s, from, to) == SubSeq(s, from + 1, Min(to, Len(s)))

\* pasteMerge that keeps the empty lines of the pasted text
pasteMerge_KeepsEmptyLines(original, cursor, pasted) ==
    LET lines == SplitLines(pasted)
    IN  [first |-> Slice(original, 0, cursor) \o lines[1]
                      \o Slice(original, cursor, Len(original)),
         rest |-> Tail(lines)]

pasteMerge(original, cursor, pasted) ==
    LET lines == SelectSeq(SplitLines(pasted), LAMBDA l : Len(l) > 0)
    IN  IF lines = <<>> THEN [first |-> original, rest |-> <<>>]
        ELSE [first |-> Slice(original, 0, cursor) \o lines[1]
                           \o Slice(original, cursor, Len(original)),
              rest |-> Tail(lines)]

\* ------------------------------------------------------------ serialisation
\* JSON.stringify(s) of a State: the text is modelled as the tuple of the values
\* it holds, <<edit, <<item tuples>>>>; a property whose value is undefined is
\* left out of the text, which is the empty optional here
JSONstringify(s) ==
    <<s.edit,
      [k \in DOMAIN s.items |->
          <<s.items[k].id, s.items[k].text, s.items[k].checked,
            s.items[k].selected, s.items[k].checkedAt>>]>>

\* JSON.parse(text) as State
JSONparse(j) ==
    [edit |-> j[1],
     items |-> [k \in DOMAIN j[2] |->
                  [id |-> j[2][k][1], text |-> j[2][k][2], checked |-> j[2][k][3],
                   selected |-> j[2][k][4], checkedAt |-> j[2][k][5]]]]

\* ------------------------------------------------------------------- state
VARIABLES
    state,              \* useState<State>: { edit, items }
    historyRef,         \* historyRef.current: string[]
    redoRef,            \* redoRef.current: string[]
    typingRef,          \* typingRef.current.active
    resetArmed,         \* useState(false) of the two-step reset
    nextUid,            \* the next id uid() returns
    dragRef,            \* dragRef.current: null or the gesture record
    longPressTimerRef,  \* the pending long-press timer: <<clientY it captured>>
    clickSuppressRef,   \* clickSuppressRef.current is not null
    clickListeners,     \* capture-phase click suppressors on window
    ghostRef,           \* ghostRef.current is not null
    ghosts,             \* .ghost elements in document.body
    listDom,            \* uncheckedListRef.current.children
    upListeners,        \* window "pointerup" listeners: the state each closes over
    cancelListener,     \* a window "pointercancel" listener is registered
    rafPending,         \* onPointerUp's cleanup waits for its animation frame
    clickDue,           \* the click the browser owes the gesture just released
    swipe,              \* useSwipeToDelete of one SavedListItem: state, ref, listeners, timers
    budget,             \* user operations left in this run
    testArgs,           \* runTests: the arguments of the pure function under test
    testOut             \* runTests: <<>> before the call, <<result>> after it

gestureVars == <<dragRef, longPressTimerRef, clickSuppressRef, clickListeners,
                 ghostRef, ghosts, upListeners, cancelListener, rafPending,
                 clickDue, swipe>>
vars == <<state, historyRef, redoRef, typingRef, resetArmed, nextUid, budget,
          gestureVars, listDom, testArgs, testOut>>
testVars == <<testArgs, testOut>>

\* the browser dispatches the click of a released gesture right after its
\* pointerup, before any other event
NoClickDue == clickDue = <<>>
\* one user operation, counted against the run's budget
CountOp == NoClickDue /\ budget > 0 /\ budget' = budget - 1
\* a key or button operation: the user works the keys and buttons between
\* pointer gestures, not while a pointer is down
KeyOp == dragRef = <<>> /\ CountOp
\* a key or button operation that reaches its handler as a click event: a click
\* suppressor on window (capture phase) stops the event before React sees it
ClickOp == KeyOp /\ clickListeners = 0

\* it.text.trim() !== ""
IsBlank(text) == text \in {"", " "}

\* ------------------------------------------------ the unchecked list's DOM
\* uncheckedListRef.current.children: the rows React renders for uncheckedItems
\* (data-id, and the data-drag-collapsed mark startDrag sets) and the
\* placeholder elements startDrag inserts (data-placeholder, with the height
\* and margins updatePlaceholder gives them).  Coordinates are relative to the
\* top of the list, which is taken to fit its scroll container.
RowNode(id) ==
    [ph |-> FALSE, id |-> id, collapsed |-> FALSE, h |-> 0, mt |-> 0, mb |-> 0]
PhNode(h, mt, mb) ==
    [ph |-> TRUE, id |-> 0, collapsed |-> FALSE, h |-> h, mt |-> mt, mb |-> mb]

\* the ids of uncheckedItems, in display order
UncheckedIds(items) ==
    LET u == SelectSeq(sortUncheckedFirst(items), LAMBDA it : ~it.checked)
    IN  [k \in DOMAIN u |-> u[k].id]

\* the list as React first renders it
RenderedRows(items) ==
    LET ids == UncheckedIds(items) IN [k \in DOMAIN ids |-> RowNode(ids[k])]

\* the position of the first child satisfying P after position k, or 0
FirstAfter(dom, k, P(_)) ==
    IF \E j \in (k + 1)..Len(dom) : P(dom[j])
    THEN CHOOSE j \in (k + 1)..Len(dom) :
            P(dom[j]) /\ \A i \in (k + 1)..(j - 1) : ~P(dom[i])
    ELSE 0

\* list.querySelector('[data-placeholder="1"]'): its position, or 0
FirstPh(dom) == FirstAfter(dom, 0, LAMBDA n : n.ph)

RemoveAt(seq, k) == SubSeq(seq, 1, k - 1) \o SubSeq(seq, k + 1, Len(seq))
InsertBefore(seq, x, k) == SubSeq(seq, 1, k - 1) \o <<x>> \o SubSeq(seq, k, Len(seq))

\* ph.remove() on the first placeholder, if there is one
RemoveFirstPh(dom) == IF FirstPh(dom) = 0 THEN dom ELSE RemoveAt(dom, FirstPh(dom))

\* every [data-drag-collapsed="1"] is shown again and loses the mark
Uncollapse(dom) == [k \in DOMAIN dom |-> [dom[k] EXCEPT !.collapsed = FALSE]]

\* React's re-render after setState: the rows become those of the new
\* uncheckedItems, a row that stays keeps its element (and so its collapsed
\* mark), and an element React does not own (a placeholder) stays in front of
\* the next row that is still there
Rerender(dom, items) ==
    LET ids == UncheckedIds(items)
        kept(id) == \E k \in DOMAIN dom : ~dom[k].ph /\ dom[k].id = id
        node(id) == IF kept(id)
                    THEN dom[CHOOSE k \in DOMAIN dom : ~dom[k].ph /\ dom[k].id = id]
                    ELSE RowNode(id)
        \* the id of the row a placeholder at position k is anchored to, 0: the end
        anchor(k) ==
            LET j == FirstAfter(dom, k, LAMBDA n : ~n.ph /\ Includes(ids, n.id))
            IN  IF j = 0 THEN 0 ELSE dom[j].id
        phsAt(id) == SelectSeq([k \in DOMAIN dom |-> <<k, dom[k]>>],
                               LAMBDA p : p[2].ph /\ anchor(p[1]) = id)
        nodesOf(ps) == [k \in DOMAIN ps |-> ps[k][2]]
        RECURSIVE build(_)
        build(k) == IF k > Len(ids) THEN nodesOf(phsAt(0))
                    ELSE nodesOf(phsAt(ids[k])) \o <<node(ids[k])>> \o build(k + 1)
    IN  build(1)

\* the React index prop of the row at position k: its place among the rows
RowIndex(dom, k) == Cardinality({j \in 1..k : ~dom[j].ph})

\* the margins and the height the child at position k takes in the column
Box(dom, k) ==
    IF dom[k].ph THEN [mt |-> dom[k].mt, h |-> dom[k].h, mb |-> dom[k].mb]
    ELSE IF dom[k].collapsed THEN [mt |-> 0, h |-> 0, mb |-> 0]
    ELSE [mt |-> IF RowIndex(dom, k) = 1 THEN 0 ELSE ROW_SPACING,
          h |-> ROW_H, mb |-> 0]

\* where the column has got to after its first k children
RECURSIVE Extent(_, _)
Extent(dom, k) ==
    IF k = 0 THEN 0
    ELSE Extent(dom, k - 1) + Box(dom, k).mt + Box(dom, k).h + Box(dom, k).mb

\* getBoundingClientRect() of the child at position k (display: none gives zeros)
RectTop(dom, k) ==
    IF ~dom[k].ph /\ dom[k].collapsed THEN 0
    ELSE Extent(dom, k - 1) + Box(dom, k).mt
RectHeight(dom, k) == Box(dom, k).h

\* React renders the rows of the new state
Rendered == listDom' = Rerender(listDom, state'.items)

\* ---------------------------------------------------------- history manager
\* pushHistory with pop() in place of shift(): the newest snapshot is dropped
PushedHistory_DropsNewest(h, s) ==
    LET h2 == Append(h, JSONstringify(s))
    IN  IF Len(h2) > HISTORY_LIMIT THEN SubSeq(h2, 1, HISTORY_LIMIT) ELSE h2

\* pushHistory(s): the new value of historyRef.current
PushedHistory(h, s) ==
    LET h2 == Append(h, JSONstringify(s))
    IN  IF Len(h2) > HISTORY_LIMIT THEN Tail(h2) ELSE h2

\* pushHistory(s) that leaves the redo stack alone
pushHistory_KeepsRedo(s) ==
    /\ historyRef' = PushedHistory(historyRef, s)
    /\ UNCHANGED redoRef

\* pushHistory(s)
pushHistory(s) ==
    /\ historyRef' = PushedHistory(historyRef, s)
    /\ redoRef' = <<>>

\* undo() without its guard on an empty stack: the document goes to redo
Undone_NoEmptyGuard(s, h, r) ==
    IF h = <<>> THEN [state |-> s, history |-> h, redo |-> Append(r, JSONstringify(s))]
    ELSE [state |-> JSONparse(h[Len(h)]),
          history |-> SubSeq(h, 1, Len(h) - 1),
          redo |-> Append(r, JSONstringify(s))]

\* undo() on the document s and the stacks h, r: what they are afterwards
Undone(s, h, r) ==
    IF h = <<>> THEN [state |-> s, history |-> h, redo |-> r]
    ELSE [state |-> JSONparse(h[Len(h)]),
          history |-> SubSeq(h, 1, Len(h) - 1),
          redo |-> Append(r, JSONstringify(s))]

\* redo without the push of the current document onto the undo stack
Redone_NoPush(s, h, r) ==
    IF r = <<>> THEN [state |-> s, history |-> h, redo |-> r]
    ELSE [state |-> JSONparse(r[Len(r)]),
          history |-> h,
          redo |-> SubSeq(r, 1, Len(r) - 1)]

\* redo() on the document s and the stacks h, r: what they are afterwards
Redone(s, h, r) ==
    IF r = <<>> THEN [state |-> s, history |-> h, redo |-> r]
    ELSE [state |-> JSONparse(r[Len(r)]),
          history |-> Append(h, JSONstringify(s)),
          redo |-> SubSeq(r, 1, Len(r) - 1)]

\* the undo button
undo ==
    /\ ClickOp
    /\ LET u == Undone(state, historyRef, redoRef)
       IN  /\ state' = u.state
           /\ historyRef' = u.history
           /\ redoRef' = u.redo
    /\ Rendered
    /\ UNCHANGED <<typingRef, resetArmed, nextUid, gestureVars, testVars>>

\* the redo button
redo ==
    /\ ClickOp
    /\ LET u == Redone(state, historyRef, redoRef)
       IN  /\ state' = u.state
           /\ historyRef' = u.history
           /\ redoRef' = u.redo
    /\ Rendered
    /\ UNCHANGED <<typingRef, resetArmed, nextUid, gestureVars, testVars>>

\* --------------------------------------------------- document mutations (App)
\* the item with this id is in the document
Present(id) == \E k \in DOMAIN state.items : state.items[k].id = id
ItemOf(id) == state.items[FindIndex(state.items, id)]
\* a row with a handle in view mode too
EditableRow_AnyMode(id) == Present(id) /\ ~ItemOf(id).checked

\* a row of the unchecked list (uncheckedItems) that can be edited
EditableRow(id) == state.edit /\ Present(id) /\ ~ItemOf(id).checked

\* typingRef.current.active = false
endTyping == typingRef' = FALSE

\* beginTypingIfNeeded()
beginTypingIfNeeded ==
    IF ~typingRef
    THEN pushHistory(state) /\ typingRef' = TRUE
    ELSE UNCHANGED <<historyRef, redoRef, typingRef>>

\* Row textarea onInput -> setItemTextById(id, text)
setItemTextById(id, text) ==
    /\ KeyOp
    /\ EditableRow(id)
    /\ text # ItemOf(id).text
    /\ beginTypingIfNeeded
    /\ state' = [edit |-> state.edit,
                 items |-> [k \in DOMAIN state.items |->
                     IF state.items[k].id = id
                     THEN [state.items[k] EXCEPT !.text = text]
                     ELSE state.items[k]]]
    /\ Rendered
    /\ UNCHANGED <<resetArmed, nextUid, testVars, gestureVars>>

\* the toggle with what the earlier copy of the component did to _checkedAt on
\* a check, and the same on an uncheck
ToggledChecked_StampsBoth(items, id) ==
    [k \in DOMAIN items |->
        IF items[k].id = id
        THEN [items[k] EXCEPT !.checked = ~items[k].checked, !.checkedAt = <<1>>]
        ELSE items[k]]

\* the items of toggleCheckedById's updater
ToggledChecked(items, id) ==
    [k \in DOMAIN items |->
        IF items[k].id = id
        THEN [items[k] EXCEPT !.checked = ~items[k].checked]
        ELSE items[k]]

\* Row onClick (view mode only) -> toggleCheckedById(id)
toggleCheckedById(id) ==
    /\ ClickOp
    /\ ~state.edit
    /\ Present(id)
    /\ state' = [state EXCEPT !.items = ToggledChecked(state.items, id)]
    /\ Rendered
    /\ UNCHANGED <<historyRef, redoRef, typingRef, resetArmed, nextUid, testVars, gestureVars>>

\* select checkbox onChange -> toggleSelected(id, v), v the box's new value
toggleSelected(id, v) ==
    /\ ClickOp
    /\ EditableRow(id)
    /\ v = ~(ItemOf(id).selected = <<TRUE>>)
    /\ pushHistory(state)
    /\ state' = [edit |-> state.edit,
                 items |-> [k \in DOMAIN state.items |->
                     IF state.items[k].id = id
                     THEN [state.items[k] EXCEPT !.selected = <<v>>]
                     ELSE state.items[k]]]
    /\ Rendered
    /\ UNCHANGED <<typingRef, resetArmed, nextUid, testVars, gestureVars>>

\* insertEmptyAfterId with the new row carrying the id of the row it follows
InsertedAfter_CopiesId(items, id, newId) ==
    LET pos == FindIndex(items, id)
    IN  IF pos = 0 THEN items
        ELSE SubSeq(items, 1, pos) \o <<NewItem(id, "")>>
                 \o SubSeq(items, pos + 1, Len(items))

\* insertEmptyAfterId that splices at pos + 1 also when findIndex returned -1
InsertedAfter_AbsentPrepends(items, id, newId) ==
    LET pos == FindIndex(items, id)
    IN  SubSeq(items, 1, pos) \o <<NewItem(newId, "")>>
            \o SubSeq(items, pos + 1, Len(items))

\* insertEmptyAfterId with push() in place of splice(pos + 1, 0, newItem)
InsertedAfter_AtEnd(items, id, newId) ==
    IF FindIndex(items, id) = 0 THEN items ELSE Append(items, NewItem(newId, ""))

\* the items of insertEmptyAfterId's updater: pos < 0 returns them unchanged
InsertedAfter(items, id, newId) ==
    LET pos == FindIndex(items, id)
    IN  IF pos = 0 THEN items
        ELSE SubSeq(items, 1, pos) \o <<NewItem(newId, "")>>
                 \o SubSeq(items, pos + 1, Len(items))

\* Enter in a row's textarea: endTyping(); insertEmptyAfterId(id)
insertEmptyAfterId(id) ==
    /\ KeyOp
    /\ EditableRow(id)
    /\ nextUid <= MaxIds
    /\ endTyping
    /\ pushHistory(state)
    /\ state' = [edit |-> state.edit,
                 items |-> InsertedAfter(state.items, id, nextUid)]
    /\ nextUid' = nextUid + 1
    /\ Rendered
    /\ UNCHANGED <<resetArmed, testVars, gestureVars>>

\* the row's delete button: endTyping(); deleteItem(id)
deleteItem(id) ==
    /\ ClickOp
    /\ EditableRow(id)
    /\ endTyping
    /\ pushHistory(state)
    /\ state' = [edit |-> state.edit,
                 items |-> SelectSeq(state.items, LAMBDA it : it.id # id)]
    /\ Rendered
    /\ UNCHANGED <<resetArmed, nextUid, testVars, gestureVars>>

\* a paste of text that holds a line feed into the field of the row id, the
\* caret at pos: Row's onPaste
onPaste(id, pos, text) ==
    /\ KeyOp
    /\ EditableRow(id)
    /\ IndexOfLF(text) # 0
    /\ pos \in 0..Len(ItemOf(id).text)
    /\ LET m == pasteMerge(ItemOf(id).text, pos, text)
           idx == FindIndex(state.items, id)
           inserts == [k \in DOMAIN m.rest |-> NewItem(nextUid + k - 1, m.rest[k])]
       IN  /\ nextUid + Len(m.rest) - 1 <= MaxIds
           \* props.onInput(first, ta) is setItemTextById(id, first)
           /\ beginTypingIfNeeded
           \* __setAppState({ edit, items: next }) replaces what onInput set
           /\ state' = [edit |-> state.edit,
                        items |-> SubSeq(state.items, 1, idx - 1)
                                     \o <<[state.items[idx] EXCEPT !.text = m.first]>>
                                     \o inserts
                                     \o SubSeq(state.items, idx + 1, Len(state.items))]
           /\ nextUid' = nextUid + Len(m.rest)
    /\ Rendered
    /\ UNCHANGED <<resetArmed, gestureVars, testVars>>

\* first click on the reset button
armReset ==
    /\ ClickOp
    /\ ~resetArmed
    /\ resetArmed' = TRUE
    /\ UNCHANGED <<state, historyRef, redoRef, typingRef, nextUid, testVars, gestureVars, listDom>>

\* the arm timeout (ARM_TIMEOUT_MS) or the button's onBlur
disarmReset ==
    /\ CountOp
    /\ resetArmed
    /\ resetArmed' = FALSE
    /\ UNCHANGED <<state, historyRef, redoRef, typingRef, nextUid, testVars, gestureVars, listDom>>

\* second click on the reset button
doReset ==
    /\ ClickOp
    /\ resetArmed
    /\ nextUid <= MaxIds
    /\ pushHistory(state)
    /\ state' = [edit |-> TRUE, items |-> <<NewItem(nextUid, "")>>]
    /\ nextUid' = nextUid + 1
    /\ resetArmed' = FALSE
    /\ Rendered
    /\ UNCHANGED <<typingRef, testVars, gestureVars>>

\* the edit-mode button without the filter on blank items
toggleEdit_KeepsBlanks ==
    /\ ClickOp
    /\ endTyping
    /\ state' = [edit |-> ~state.edit, items |-> state.items]
    /\ Rendered
    /\ UNCHANGED <<historyRef, redoRef, resetArmed, nextUid, testVars, gestureVars>>

\* the edit-mode button
toggleEdit ==
    /\ ClickOp
    /\ endTyping
    /\ state' = [edit |-> ~state.edit,
                 items |-> IF state.edit
                           THEN SelectSeq(state.items, LAMBDA it : ~IsBlank(it.text))
                           ELSE state.items]
    /\ Rendered
    /\ UNCHANGED <<historyRef, redoRef, resetArmed, nextUid, testVars, gestureVars>>

\* ------------------------------------------------- drag gesture controller
\* the pointer positions the model feeds in: a press lands PressY below the top
\* of the pressed row at x = 0; a move goes to x in PointerXs, y in PointerYs
PressY == ROW_H \div 2
\* one row and the space above it
YStep == ROW_H + ROW_SPACING
PointerXs == {0, DRAG_START_PX}
PointerYs == {YStep * k : k \in 0..MaxYSteps}

Abs(x) == IF x < 0 THEN 0 - x ELSE x
\* Math.round(a / n) for a >= 0, n > 0
RoundDiv(a, n) == (2 * a + n) \div (2 * n)
\* positions of the children satisfying P, in order
Positions(dom, P(_)) == SelectSeq([k \in DOMAIN dom |-> k], LAMBDA k : P(dom[k]))
RECURSIVE SumHeights(_, _)
SumHeights(dom, ks) ==
    IF ks = <<>> THEN 0 ELSE RectHeight(dom, Head(ks)) + SumHeights(dom, Tail(ks))

\* updatePlaceholder(list, clientY, draggingIds, totalH) with dr = dragRef.current:
\* the list's children afterwards
updatePlaceholder(dom, dr, clientY, draggingIds, totalH) ==
    IF FirstPh(dom) = 0 THEN dom
    ELSE
    LET children == Positions(dom, LAMBDA n : ~n.ph /\ ~n.collapsed)
        topY == clientY - dr.offsetY
        prevY == dr.lastY
        draggingDown == clientY >= prevY
        n == Max(1, Len(draggingIds))
        avg == Max(1, RoundDiv(dr.totalH, n))
        unitH == IF avg > 1 THEN avg ELSE ROW_H
        passed(i) ==
            LET k == children[i]
                threshold == IF draggingDown THEN RectTop(dom, k)
                             ELSE RectTop(dom, k) + RectHeight(dom, k) \div 2
                probe == IF draggingDown
                         THEN topY + dr.totalH - Min(RectHeight(dom, k), unitH)
                         ELSE clientY
            IN  ~Includes(draggingIds, dom[k].id) /\ probe > threshold
        hits == {i \in DOMAIN children : passed(i)}
        \* the loop leaves i + 1 of the last row passed (i counted from 0)
        targetIndex == IF hits = {} THEN 0
                       ELSE CHOOSE i \in hits : \A j \in hits : j <= i
        hasRef == targetIndex + 1 <= Len(children)
        ph == PhNode(Max(ROW_H, totalH - ROW_SPACING),
                     IF targetIndex = 0 THEN 0 ELSE ROW_SPACING,
                     IF hasRef THEN ROW_SPACING ELSE 0)
        without == RemoveAt(dom, FirstPh(dom))
    IN  IF hasRef
        THEN LET refId == dom[children[targetIndex + 1]].id
                 at == CHOOSE k \in DOMAIN without :
                          ~without[k].ph /\ without[k].id = refId
             IN  InsertBefore(without, ph, at)
        ELSE Append(without, ph)

\* finalizePlaceholder(list, draggingIds).insertAt: <<>> is null
finalizePlaceholder(dom, draggingIds) ==
    IF FirstPh(dom) = 0 THEN <<>>
    ELSE <<Cardinality({k \in 1..(FirstPh(dom) - 1) :
                /\ ~dom[k].ph
                /\ ~dom[k].collapsed
                /\ ~Includes(draggingIds, dom[k].id)})>>

\* startDrag(list, clientY) on w = [drag, ghostRef, ghosts, dom]: w afterwards
startDrag(w, clientY) ==
    IF w.drag = <<>> \/ w.drag[1].started THEN w
    ELSE
    LET dr == w.drag[1]
        rowEls == Positions(w.dom, LAMBDA n : ~n.ph /\ Includes(dr.draggingIds, n.id))
    IN  IF rowEls = <<>> THEN w
        ELSE
        LET sumHeights == SumHeights(w.dom, rowEls)
            internalSpacing == Max(0, Len(rowEls) - 1) * ROW_SPACING
            totalH == sumHeights + internalSpacing
            collapsed == [k \in DOMAIN w.dom |->
                            IF Includes(rowEls, k)
                            THEN [w.dom[k] EXCEPT !.collapsed = TRUE]
                            ELSE w.dom[k]]
            withPh == InsertBefore(collapsed, PhNode(0, 0, 0), rowEls[1])
        IN  [drag |-> <<[dr EXCEPT !.started = TRUE, !.totalH = totalH]>>,
             ghostRef |-> TRUE,
             ghosts |-> w.ghosts + 1,
             dom |-> updatePlaceholder(withPh, dr, clientY, dr.draggingIds, totalH)]

Refs == [drag |-> dragRef, ghostRef |-> ghostRef, ghosts |-> ghosts, dom |-> listDom]
SetRefs(w) ==
    /\ dragRef' = w.drag
    /\ ghostRef' = w.ghostRef
    /\ ghosts' = w.ghosts
    /\ listDom' = w.dom

\* state.items.filter((it) => it._selected && !it.checked).map((it) => it.id)
selectedIdsOf(items) ==
    LET sel == SelectSeq(items, LAMBDA it : it.selected = <<TRUE>> /\ ~it.checked)
    IN  [k \in DOMAIN sel |-> sel[k].id]

\* the drag set rule without its test of the pressed item's own selection
draggingIdsOf_AnySelection(items, pressed) ==
    IF Len(selectedIdsOf(items)) > 1 THEN selectedIdsOf(items) ELSE <<pressed.id>>

\* pressed._selected && selectedIds.length > 1 ? selectedIds : [pressed.id]
draggingIdsOf(items, pressed) ==
    IF pressed.selected = <<TRUE>> /\ Len(selectedIdsOf(items)) > 1
    THEN selectedIdsOf(items) ELSE <<pressed.id>>

\* pointer-down on a row's handle or select box:
\* endTyping(); onPointerDownHandle(e, id, true)
onPointerDownHandle(id) ==
    /\ CountOp
    /\ EditableRow(id)
    /\ \E k \in DOMAIN listDom :
          ~listDom[k].ph /\ listDom[k].id = id /\ ~listDom[k].collapsed
    /\ dragRef = <<>> \/ clickListeners <= MaxLeaks
    /\ endTyping
    /\ LET pressed == ItemOf(id)
           draggingIds == draggingIdsOf(state.items, pressed)
           rowEls == Positions(listDom,
                               LAMBDA n : ~n.ph /\ Includes(draggingIds, n.id))
           at == CHOOSE k \in DOMAIN listDom : ~listDom[k].ph /\ listDom[k].id = id
           clientY == RectTop(listDom, at) + PressY
       IN  /\ dragRef' = <<[draggingIds |-> draggingIds,
                            offsetY |-> clientY - RectTop(listDom, rowEls[1]),
                            startX |-> 0,
                            startY |-> clientY,
                            lastY |-> clientY,
                            started |-> FALSE,
                            totalH |-> 0]>>
           /\ longPressTimerRef' = <<clientY>>
    /\ upListeners' = IF Includes(upListeners, state) THEN upListeners
                      ELSE Append(upListeners, state)
    /\ cancelListener' = TRUE
    /\ clickSuppressRef' = TRUE
    /\ clickListeners' = clickListeners + 1
    /\ UNCHANGED <<state, historyRef, redoRef, resetArmed, nextUid, ghostRef,
                   ghosts, listDom, rafPending, clickDue, swipe, testVars>>

\* the timer callback that starts a drag whether or not one has started
longPressFired_NoStartedCheck(w, clientY) ==
    IF w.drag = <<>> THEN w
    ELSE startDrag([w EXCEPT !.drag = <<[w.drag[1] EXCEPT !.started = FALSE]>>],
                   clientY)

\* the callback of the long-press timer, on w = [drag, ghostRef, ghosts, dom]
longPressFired(w, clientY) ==
    IF w.drag = <<>> \/ ~w.drag[1].started THEN startDrag(w, clientY) ELSE w

\* the 120 ms long-press timer fires
longPressTimer ==
    /\ NoClickDue
    /\ longPressTimerRef # <<>>
    /\ longPressTimerRef' = <<>>
    /\ SetRefs(longPressFired(Refs, longPressTimerRef[1]))
    /\ UNCHANGED <<state, historyRef, redoRef, typingRef, resetArmed, nextUid,
                   budget, clickSuppressRef, clickListeners, upListeners,
                   cancelListener, rafPending, clickDue, swipe, testVars>>

\* onPointerMove with a start threshold the distance has to exceed
onPointerMoveOn_StrictThreshold(w0, clientX, clientY) ==
    LET dr == w0.drag[1]
        dx == Abs(clientX - dr.startX)
        dy == Abs(clientY - dr.startY)
    IN  IF ~dr.started /\ Max(dx, dy) <= DRAG_START_PX
        THEN w0
        ELSE LET w == IF ~dr.started THEN startDrag(w0, clientY) ELSE w0
                 dom2 == updatePlaceholder(w.dom, w.drag[1], clientY,
                                           dr.draggingIds, dr.totalH)
             IN  [w EXCEPT !.dom = dom2,
                           !.drag = <<[w.drag[1] EXCEPT !.lastY = clientY]>>]

\* onPointerMove(ev) with dragRef.current set, on w0 = [drag, ghostRef, ghosts,
\* dom]: w0 afterwards
onPointerMoveOn(w0, clientX, clientY) ==
    LET dr == w0.drag[1]
        dx == Abs(clientX - dr.startX)
        dy == Abs(clientY - dr.startY)
    IN  IF ~dr.started /\ Max(dx, dy) < DRAG_START_PX
        THEN w0
        ELSE LET w == IF ~dr.started THEN startDrag(w0, clientY) ELSE w0
                 \* draggingIds and totalH were read before startDrag ran
                 dom2 == updatePlaceholder(w.dom, w.drag[1], clientY,
                                           dr.draggingIds, dr.totalH)
             IN  [w EXCEPT !.dom = dom2,
                           !.drag = <<[w.drag[1] EXCEPT !.lastY = clientY]>>]

\* window "pointermove" while a gesture is registered
onPointerMove(clientX, clientY) ==
    /\ NoClickDue
    /\ dragRef # <<>>
    \* clientX is read only until the drag has started
    /\ dragRef[1].started => clientX = 0
    /\ SetRefs(onPointerMoveOn(Refs, clientX, clientY))
    /\ UNCHANGED <<state, historyRef, redoRef, typingRef, resetArmed, nextUid,
                   budget, longPressTimerRef, clickSuppressRef, clickListeners,
                   upListeners, cancelListener, rafPending, clickDue, swipe, testVars>>

\* onPointerUp with a not-started branch that snapshots the captured state
onPointerUp_TapPushesHistory(u, captured) ==
    [u EXCEPT !.dom = Uncollapse(RemoveFirstPh(u.dom)),
              !.drag = <<>>,
              !.history = IF u.drag # <<>> /\ ~u.drag[1].started
                          THEN PushedHistory(u.history, captured)
                          ELSE u.history]

\* onPointerUp as the listener that closes over the state captured; on
\* u = [drag, ghostRef, ghosts, dom, history, redo, items, raf]: u afterwards
onPointerUp(u, captured) ==
    IF ~(u.drag # <<>> /\ u.drag[1].started)
    THEN [u EXCEPT !.dom = Uncollapse(RemoveFirstPh(u.dom)), !.drag = <<>>]
    ELSE
    LET draggingIds == u.drag[1].draggingIds
        u1 == [u EXCEPT !.ghosts = IF u.ghostRef THEN u.ghosts - 1 ELSE u.ghosts,
                        !.ghostRef = FALSE]
        insertAt == finalizePlaceholder(u.dom, draggingIds)
    IN  IF draggingIds = <<>> THEN [u1 EXCEPT !.drag = <<>>]
        ELSE IF insertAt = <<>> THEN [u1 EXCEPT !.drag = <<>>, !.raf = TRUE]
        ELSE [u1 EXCEPT !.drag = <<>>,
                        !.history = PushedHistory(u.history, captured),
                        !.redo = <<>>,
                        !.items = reorderAndUncheck(u.items, draggingIds, insertAt[1]),
                        !.raf = TRUE]

\* the listeners run in the order they were registered
RECURSIVE RunUpListeners(_, _)
RunUpListeners(u, ls) ==
    IF ls = <<>> THEN u ELSE RunUpListeners(onPointerUp(u, Head(ls)), Tail(ls))

\* window "pointerup": every registered listener runs once and is removed
pointerup ==
    /\ upListeners # <<>>
    /\ LET u0 == [drag |-> dragRef, ghostRef |-> ghostRef, ghosts |-> ghosts,
                  dom |-> listDom, history |-> historyRef, redo |-> redoRef,
                  items |-> state.items, raf |-> rafPending]
           u == RunUpListeners(u0, upListeners)
       IN  /\ dragRef' = u.drag
           /\ ghostRef' = u.ghostRef
           /\ ghosts' = u.ghosts
           /\ historyRef' = u.history
           /\ redoRef' = u.redo
           /\ state' = [edit |-> state.edit, items |-> u.items]
           /\ rafPending' = u.raf
           /\ listDom' = Rerender(u.dom, u.items)
    /\ upListeners' = <<>>
    /\ longPressTimerRef' = <<>>
    /\ clickSuppressRef' = FALSE
    /\ clickListeners' = IF clickSuppressRef THEN clickListeners - 1 ELSE clickListeners
    \* the press was on the select box of a row of the drag set and the browser
    \* follows the pointerup with a click there; or it was on the handle, which
    \* has no click handler, or the browser dispatches no click
    /\ clickDue' \in
          IF dragRef = <<>> THEN {<<>>}
          ELSE {<<>>} \cup {<<[id |-> id, drag |-> dragRef[1].started]>> :
                               id \in Range(dragRef[1].draggingIds)}
    /\ UNCHANGED <<typingRef, resetArmed, nextUid, budget, cancelListener, swipe,
                   testVars>>

\* the click that follows the pointerup, at the select box of the row pressed:
\* a click suppressor still on window swallows it, else the box's onChange
\* runs toggleSelected(id, v) with v the box's new value; counted against the
\* run's budget like every operation that can change the document
click ==
    /\ clickDue # <<>>
    /\ clickDue' = <<>>
    /\ budget > 0
    /\ budget' = budget - 1
    /\ LET id == clickDue[1].id
       IN  IF clickListeners = 0 /\ EditableRow(id)
           THEN /\ pushHistory(state)
                /\ state' = [edit |-> state.edit,
                             items |-> [k \in DOMAIN state.items |->
                                 IF state.items[k].id = id
                                 THEN [state.items[k] EXCEPT
                                          !.selected = <<~(ItemOf(id).selected = <<TRUE>>)>>]
                                 ELSE state.items[k]]]
                /\ Rendered
           ELSE UNCHANGED <<state, historyRef, redoRef, listDom>>
    /\ UNCHANGED <<typingRef, resetArmed, nextUid, dragRef,
                   longPressTimerRef, clickSuppressRef, clickListeners, ghostRef,
                   ghosts, upListeners, cancelListener, rafPending, swipe,
                   testVars>>

\* onPointerCancel without the clearTimeout of the long-press timer
onPointerCancel_KeepsTimer ==
    /\ NoClickDue
    /\ cancelListener
    /\ cancelListener' = FALSE
    /\ clickSuppressRef' = FALSE
    /\ clickListeners' = IF clickSuppressRef THEN clickListeners - 1 ELSE clickListeners
    /\ ghosts' = IF ghostRef THEN ghosts - 1 ELSE ghosts
    /\ ghostRef' = FALSE
    /\ listDom' = Uncollapse(RemoveFirstPh(listDom))
    /\ dragRef' = <<>>
    /\ UNCHANGED <<state, historyRef, redoRef, typingRef, resetArmed, nextUid,
                   budget, upListeners, rafPending, clickDue, swipe, testVars,
                   longPressTimerRef>>

\* window "pointercancel": onPointerCancel
onPointerCancel ==
    /\ NoClickDue
    /\ cancelListener
    /\ cancelListener' = FALSE
    /\ longPressTimerRef' = <<>>
    /\ clickSuppressRef' = FALSE
    /\ clickListeners' = IF clickSuppressRef THEN clickListeners - 1 ELSE clickListeners
    /\ ghosts' = IF ghostRef THEN ghosts - 1 ELSE ghosts
    /\ ghostRef' = FALSE
    /\ listDom' = Uncollapse(RemoveFirstPh(listDom))
    /\ dragRef' = <<>>
    /\ UNCHANGED <<state, historyRef, redoRef, typingRef, resetArmed, nextUid,
                   budget, upListeners, rafPending, clickDue, swipe, testVars>>

\* the animation frame onPointerUp's cleanup() asked for
cleanupFrame ==
    /\ NoClickDue
    /\ rafPending
    /\ rafPending' = FALSE
    /\ listDom' = Uncollapse(RemoveFirstPh(listDom))
    /\ UNCHANGED <<state, historyRef, redoRef, typingRef, resetArmed, nextUid,
                   budget, dragRef, longPressTimerRef, clickSuppressRef,
                   clickListeners, ghostRef, ghosts, upListeners, cancelListener,
                   clickDue, swipe, testVars>>

\* ------------------------------------------------- swipe-to-delete (hook)
SWIPE_THRESHOLD_PCT == 35
SWIPE_START_PX == 8
\* rect.width of the tile
SwipeWidth == 40
\* where a press lands and where the pointer moves to
SwipeXs == {0 - 10, 0, 5, 8, 14, 15}
SwipeYs == {0, 9, 20}

\* useState({swiping, offsetX, deleting}), swipeRef.current (<<>> is null), the
\* sets of window listeners registered (one set of three per pointer-down),
\* the pending timers of handlePointerUp, and the calls of onDelete so far;
\* pointers counts the pointers that are down on the tile, and cancelled
\* records that the first movement of the latest press past the start
\* threshold was vertical-dominant
SwipeIdle ==
    [swiping |-> FALSE, offsetX |-> 0, deleting |-> FALSE, ref |-> <<>>,
     sets |-> 0, deleteTimers |-> 0, nullTimers |-> 0, deleted |-> 0,
     pointers |-> 0, cancelled |-> FALSE]

\* handlePointerMove without the vertical check
handlePointerMove_NoVerticalCheck(s, clientX, clientY) ==
    IF s.ref = <<>> THEN s
    ELSE
    LET r == s.ref[1]
        dx == clientX - r.startX
        dy == clientY - r.startY
    IN  IF ~r.started /\ Abs(dx) < SWIPE_START_PX /\ Abs(dy) < SWIPE_START_PX
        THEN s
        ELSE [s EXCEPT !.ref = <<[r EXCEPT !.started = TRUE, !.currentX = clientX]>>,
                       !.swiping = TRUE,
                       !.offsetX = Max(0, dx),
                       !.deleting = FALSE]

\* handlePointerMove(ev) of one listener set, on the hook's state s
handlePointerMove(s, clientX, clientY) ==
    IF s.ref = <<>> THEN s
    ELSE
    LET r == s.ref[1]
        dx == clientX - r.startX
        dy == clientY - r.startY
    IN  IF ~r.started /\ Abs(dx) < SWIPE_START_PX /\ Abs(dy) < SWIPE_START_PX
        THEN s
        ELSE IF ~r.started /\ Abs(dy) > Abs(dx)
        \* cleanup(): this set's listeners are removed
        THEN [s EXCEPT !.sets = @ - 1]
        ELSE [s EXCEPT !.ref = <<[r EXCEPT
                                    !.shouldPreventClick =
                                        IF ~r.started /\ Abs(dx) >= SWIPE_START_PX
                                        THEN TRUE ELSE @,
                                    !.started = TRUE,
                                    !.currentX = clientX]>>,
                       !.swiping = TRUE,
                       !.offsetX = Max(0, dx),
                       !.deleting = FALSE]

\* dx > threshold in handlePointerUp, threshold = width * SWIPE_THRESHOLD
OverThreshold(r) == (r.currentX - r.startX) * 100 > r.width * SWIPE_THRESHOLD_PCT

\* handlePointerUp that deletes at the threshold already
handlePointerUp_AtThreshold(s) ==
    IF s.ref = <<>> THEN s
    ELSE
    LET r == s.ref[1]
        over == (r.currentX - r.startX) * 100 >= r.width * SWIPE_THRESHOLD_PCT
    IN  [s EXCEPT !.swiping = FALSE,
                  !.offsetX = IF over THEN r.width ELSE 0,
                  !.deleting = over,
                  !.deleteTimers = IF over THEN @ + 1 ELSE @,
                  !.sets = @ - 1,
                  !.nullTimers = @ + 1]

\* handlePointerUp() of one listener set
handlePointerUp(s) ==
    IF s.ref = <<>> THEN s
    ELSE
    LET r == s.ref[1]
        over == OverThreshold(r)
    IN  [s EXCEPT !.swiping = FALSE,
                  !.offsetX = IF over THEN r.width ELSE 0,
                  !.deleting = over,
                  !.deleteTimers = IF over THEN @ + 1 ELSE @,
                  \* cleanup(), then setTimeout(() => swipeRef.current = null, 0)
                  !.sets = @ - 1,
                  !.nullTimers = @ + 1]

\* handlePointerCancel() of one listener set; cleanup() returns early once the
\* ref is null
handlePointerCancel(s) ==
    [s EXCEPT !.swiping = FALSE, !.offsetX = 0, !.deleting = FALSE,
              !.sets = IF s.ref = <<>> THEN @ ELSE @ - 1,
              !.ref = <<>>]

\* every other variable
nonSwipeVars ==
    <<state, historyRef, redoRef, typingRef, resetArmed, nextUid, listDom,
      dragRef, longPressTimerRef, clickSuppressRef, clickListeners, ghostRef,
      ghosts, upListeners, cancelListener, rafPending, clickDue, testArgs, testOut>>

\* onPointerDown(e) of the hook, enabled defaulting to true
swipePointerDown(clientX, clientY) ==
    /\ CountOp
    /\ swipe' = [swipe EXCEPT
                    !.ref = <<[startX |-> clientX, startY |-> clientY,
                               currentX |-> clientX, width |-> SwipeWidth,
                               started |-> FALSE, shouldPreventClick |-> FALSE]>>,
                    !.sets = @ + 1,
                    !.pointers = @ + 1,
                    !.cancelled = FALSE]
    /\ UNCHANGED nonSwipeVars

\* the move is the first one past the start threshold and |dy| > |dx|
VerticalFirstMove(clientX, clientY) ==
    /\ swipe.ref # <<>>
    /\ ~swipe.ref[1].started
    /\ LET dx == Abs(clientX - swipe.ref[1].startX)
           dy == Abs(clientY - swipe.ref[1].startY)
       IN  ~(dx < SWIPE_START_PX /\ dy < SWIPE_START_PX) /\ dy > dx

\* window "pointermove": the sets registered run one after the other
swipePointerMove(clientX, clientY) ==
    /\ swipe.sets > 0
    /\ LET step[k \in 0..swipe.sets] ==
               IF k = 0 THEN swipe ELSE handlePointerMove(step[k - 1], clientX, clientY)
       IN  swipe' = [step[swipe.sets] EXCEPT
                        !.cancelled = @ \/ VerticalFirstMove(clientX, clientY)]
    /\ UNCHANGED <<budget, nonSwipeVars>>

\* window "pointerup": a pointer that was down on the tile is lifted
swipePointerUp ==
    /\ swipe.pointers > 0
    /\ LET step[k \in 0..swipe.sets] ==
               IF k = 0 THEN swipe ELSE handlePointerUp(step[k - 1])
       IN  swipe' = [step[swipe.sets] EXCEPT !.pointers = @ - 1]
    /\ UNCHANGED <<budget, nonSwipeVars>>

\* window "pointercancel": a pointer that was down on the tile is cancelled
swipePointerCancel ==
    /\ swipe.pointers > 0
    /\ LET step[k \in 0..swipe.sets] ==
               IF k = 0 THEN swipe ELSE handlePointerCancel(step[k - 1])
       IN  swipe' = [step[swipe.sets] EXCEPT !.pointers = @ - 1]
    /\ UNCHANGED <<budget, nonSwipeVars>>

\* the 200 ms timer of handlePointerUp: onDelete(), then the state is reset
swipeDeleteTimer ==
    /\ swipe.deleteTimers > 0
    /\ swipe' = [swipe EXCEPT !.deleteTimers = @ - 1, !.deleted = @ + 1,
                              !.swiping = FALSE, !.offsetX = 0, !.deleting = FALSE]
    /\ UNCHANGED <<budget, nonSwipeVars>>

\* the 0 ms timer of handlePointerUp: swipeRef.current = null
swipeNullTimer ==
    /\ swipe.nullTimers > 0
    /\ swipe' = [swipe EXCEPT !.nullTimers = @ - 1, !.ref = <<>>]
    /\ UNCHANGED <<budget, nonSwipeVars>>

\* ------------------------------------------------------------ specification
\* usePersistentState: the document localStorage holds at start (one the
\* application saved in an earlier session), or the default document
DefaultState == [edit |-> TRUE, items |-> <<NewItem(1, "")>>]
PersistedStates ==
    { [edit |-> TRUE,
       items |-> <<NewItem(1, "a"),
                   [NewItem(2, "a") EXCEPT !.checked = TRUE],
                   NewItem(3, "a")>>],
      [edit |-> TRUE,
       items |-> <<NewItem(1, "a"), NewItem(2, "a"), NewItem(3, "a")>>] }

InitGesture ==
    /\ dragRef = <<>>
    /\ longPressTimerRef = <<>>
    /\ clickSuppressRef = FALSE
    /\ clickListeners = 0
    /\ ghostRef = FALSE
    /\ ghosts = 0
    /\ upListeners = <<>>
    /\ cancelListener = FALSE
    /\ rafPending = FALSE
    /\ clickDue = <<>>
    /\ swipe = SwipeIdle

InitTest ==
    /\ testArgs = <<>>
    /\ testOut = <<>>

Init ==
    /\ state \in {DefaultState} \cup PersistedStates
    /\ historyRef = <<>>
    /\ redoRef = <<>>
    /\ typingRef = FALSE
    /\ resetArmed = FALSE
    /\ nextUid = Len(state.items) + 1
    /\ budget = MaxOps
    /\ InitGesture
    /\ listDom = RenderedRows(state.items)
    /\ InitTest

Next ==
    \/ \E id \in Ids, text \in Texts : setItemTextById(id, text)
    \/ \E id \in Ids : toggleCheckedById(id)
    \/ \E id \in Ids, v \in BOOLEAN : toggleSelected(id, v)
    \/ \E id \in Ids : insertEmptyAfterId(id)
    \/ \E id \in Ids : deleteItem(id)
    \/ \E id \in Ids, pos \in 0..MaxCaret, text \in Pastes : onPaste(id, pos, text)
    \/ armReset
    \/ disarmReset
    \/ doReset
    \/ toggleEdit
    \/ undo
    \/ redo
    \/ \E id \in Ids : onPointerDownHandle(id)
    \/ longPressTimer
    \/ \E x \in PointerXs, y \in PointerYs : onPointerMove(x, y)
    \/ pointerup
    \/ click
    \/ onPointerCancel
    \/ cleanupFrame

Spec == Init /\ [][Next]_vars

\* the history manager under a long run of pushes, undos and redos on the
\* default document
HistOps == HISTORY_LIMIT + MaxExtra
InitHist ==
    /\ state = DefaultState
    /\ historyRef = <<>>
    /\ redoRef = <<>>
    /\ typingRef = FALSE
    /\ resetArmed = FALSE
    /\ nextUid = Len(state.items) + 1
    /\ budget = HistOps
    /\ InitGesture
    /\ listDom = RenderedRows(state.items)
    /\ InitTest

NextHist ==
    \/ \E id \in Ids, v \in BOOLEAN : toggleSelected(id, v)
    \/ \E id \in Ids, text \in Texts : setItemTextById(id, text)
    \/ undo
    \/ redo

SpecHist == InitHist /\ [][NextHist]_vars

\* runTests: the pure functions applied to arguments drawn at the start.  The
\* functions compare ids for equality only, so the k-th item has the id k; an
\* item is plain, checked with _checkedAt 1 or 2 or without it, or selected
TestShapes == {"plain", "checkedAt", "checkedAt2", "checkedNoAt", "selected"}
TestItem(id, shape) ==
    [id |-> id,
     text |-> "a",
     checked |-> shape \in {"checkedAt", "checkedAt2", "checkedNoAt"},
     selected |-> IF shape = "selected" THEN <<TRUE>> ELSE Undefined,
     checkedAt |-> IF shape = "checkedAt" THEN <<1>>
                   ELSE IF shape = "checkedAt2" THEN <<2>>
                   ELSE Undefined]
TestItemSeqs ==
    UNION {{[k \in 1..n |-> TestItem(k, f[k])] : f \in [1..n -> TestShapes]} :
              n \in 0..MaxLen}
\* the ids of S as an array
IdArray(S) == SelectSeq([k \in 1..MaxLen |-> k], LAMBDA k : k \in S)
TestInsertAts == (0 - 2)..(MaxLen + 2)

InitPure ==
    /\ testArgs \in {<<[items |-> items, draggingIds |-> IdArray(S), insertAt |-> n]>> :
                        items \in TestItemSeqs, S \in SUBSET (1..MaxLen),
                        n \in TestInsertAts}
    /\ testOut = <<>>
    /\ state = DefaultState
    /\ historyRef = <<>>
    /\ redoRef = <<>>
    /\ typingRef = FALSE
    /\ resetArmed = FALSE
    /\ nextUid = 2
    /\ budget = 0
    /\ InitGesture
    /\ listDom = RenderedRows(state.items)

appVars == <<state, historyRef, redoRef, typingRef, resetArmed, nextUid, budget,
             gestureVars, listDom>>

\* reorderByInsert(items, draggingIds, insertAt) is called
testReorderByInsert ==
    /\ testArgs # <<>>
    /\ testOut = <<>>
    /\ testOut' = <<[fn |-> "reorderByInsert",
                     result |-> reorderByInsert(testArgs[1].items,
                                                testArgs[1].draggingIds,
                                                testArgs[1].insertAt)]>>
    /\ UNCHANGED <<testArgs, appVars>>

\* reorderAndUncheck(items, draggingIds, insertAt) is called
testReorderAndUncheck ==
    /\ testArgs # <<>>
    /\ testOut = <<>>
    /\ testOut' = <<[fn |-> "reorderAndUncheck",
                     result |-> reorderAndUncheck(testArgs[1].items,
                                                  testArgs[1].draggingIds,
                                                  testArgs[1].insertAt)]>>
    /\ UNCHANGED <<testArgs, appVars>>

\* sortUncheckedFirst(items) is called
testSortUncheckedFirst ==
    /\ testArgs # <<>>
    /\ testOut = <<>>
    /\ testOut' = <<[fn |-> "sortUncheckedFirst",
                     result |-> sortUncheckedFirst(testArgs[1].items)]>>
    /\ UNCHANGED <<testArgs, appVars>>

NextPure ==
    \/ testReorderByInsert
    \/ testReorderAndUncheck
    \/ testSortUncheckedFirst

SpecPure == InitPure /\ [][NextPure]_vars

\* runTests, the pasteMerge cases: the original text, the caret and the pasted
\* text are drawn at the start; the pasted text is any text of at most MaxPaste
\* characters over a letter, LF and CR
MaxPaste == 5
PasteChars == {"x", "\n", "\r"}
RECURSIVE TextsUpTo(_)
TextsUpTo(n) ==
    IF n = 0 THEN {""}
    ELSE LET shorter == TextsUpTo(n - 1)
         IN  shorter \cup {s \o c : s \in shorter, c \in PasteChars}
TestOriginals == {"", "a", "ab", "foo"}

InitPaste ==
    /\ testArgs \in {<<[original |-> o, cursor |-> c, pasted |-> p]>> :
                        o \in TestOriginals, c \in 0..3, p \in TextsUpTo(MaxPaste)}
    /\ testArgs[1].cursor <= Len(testArgs[1].original)
    /\ testOut = <<>>
    /\ state = DefaultState
    /\ historyRef = <<>>
    /\ redoRef = <<>>
    /\ typingRef = FALSE
    /\ resetArmed = FALSE
    /\ nextUid = 2
    /\ budget = 0
    /\ InitGesture
    /\ listDom = RenderedRows(state.items)

\* pasteMerge(original, cursor, pasted) is called
testPasteMerge ==
    /\ testArgs # <<>>
    /\ testOut = <<>>
    /\ testOut' = <<[fn |-> "pasteMerge",
                     result |-> pasteMerge(testArgs[1].original,
                                           testArgs[1].cursor,
                                           testArgs[1].pasted)]>>
    /\ UNCHANGED <<testArgs, appVars>>

NextPaste == testPasteMerge

SpecPaste == InitPaste /\ [][NextPaste]_vars

\* the document operations as the functions they are, called with any id in
\* any document; the call and what it saw are recorded in testOut
CallIds == 1..(MaxLen + 1)
CallStates == {[edit |-> e, items |-> items] : e \in BOOLEAN, items \in TestItemSeqs}
CallStacks == {<<>>, <<JSONstringify(DefaultState)>>}
CallRecord(fn, arg, out) ==
    [fn |-> fn, arg |-> arg, out |-> out,
     before |-> [state |-> state, history |-> historyRef, redo |-> redoRef]]

InitCalls ==
    /\ state \in CallStates
    /\ historyRef \in CallStacks
    /\ redoRef \in CallStacks
    /\ typingRef = FALSE
    /\ resetArmed = FALSE
    /\ nextUid = MaxLen + 1
    /\ budget = 1
    /\ InitGesture
    /\ listDom = RenderedRows(state.items)
    /\ InitTest

\* deleteItem with a filter that keeps only the named item
Deleted_KeepsOnlyId(items, id) == SelectSeq(items, LAMBDA it : it.id = id)

\* prev.items.filter((it) => it.id !== id)
Deleted(items, id) == SelectSeq(items, LAMBDA it : it.id # id)

\* deleteItem(id)
callDeleteItem(id) ==
    /\ CountOp
    /\ testOut' = <<CallRecord("deleteItem", id, <<>>)>>
    /\ IF ~state.edit
       THEN UNCHANGED <<state, historyRef, redoRef, listDom>>
       ELSE /\ pushHistory(state)
            /\ state' = [edit |-> state.edit, items |-> Deleted(state.items, id)]
            /\ Rendered
    /\ UNCHANGED <<typingRef, resetArmed, nextUid, testArgs, gestureVars>>

\* insertEmptyAfterId(id); out is the row its timeout focuses
callInsertEmptyAfterId(id) ==
    /\ CountOp
    /\ LET found == FindIndex(state.items, id) # 0
       IN  IF ~state.edit
           THEN /\ testOut' = <<CallRecord("insertEmptyAfterId", id, <<>>)>>
                /\ UNCHANGED <<state, historyRef, redoRef, listDom, nextUid>>
           ELSE /\ testOut' = <<CallRecord("insertEmptyAfterId", id,
                                           IF found THEN <<nextUid>> ELSE <<>>)>>
                /\ pushHistory(state)
                /\ state' = [edit |-> state.edit,
                             items |-> InsertedAfter(state.items, id, nextUid)]
                /\ nextUid' = IF found THEN nextUid + 1 ELSE nextUid
                /\ Rendered
    /\ UNCHANGED <<typingRef, resetArmed, testArgs, gestureVars>>

\* doReset() that keeps the mode the document was in
callDoReset_KeepsMode ==
    /\ CountOp
    /\ testOut' = <<CallRecord("doReset", 0, <<>>)>>
    /\ pushHistory(state)
    /\ state' = [edit |-> state.edit, items |-> <<NewItem(nextUid, "")>>]
    /\ nextUid' = nextUid + 1
    /\ resetArmed' = FALSE
    /\ Rendered
    /\ UNCHANGED <<typingRef, testArgs, gestureVars>>

\* doReset()
callDoReset ==
    /\ CountOp
    /\ testOut' = <<CallRecord("doReset", 0, <<>>)>>
    /\ pushHistory(state)
    /\ state' = [edit |-> TRUE, items |-> <<NewItem(nextUid, "")>>]
    /\ nextUid' = nextUid + 1
    /\ resetArmed' = FALSE
    /\ Rendered
    /\ UNCHANGED <<typingRef, testArgs, gestureVars>>

\* undo()
callUndo ==
    /\ CountOp
    /\ testOut' = <<CallRecord("undo", 0, <<>>)>>
    /\ LET u == Undone(state, historyRef, redoRef)
       IN  /\ state' = u.state
           /\ historyRef' = u.history
           /\ redoRef' = u.redo
    /\ Rendered
    /\ UNCHANGED <<typingRef, resetArmed, nextUid, testArgs, gestureVars>>

\* redo()
callRedo ==
    /\ CountOp
    /\ testOut' = <<CallRecord("redo", 0, <<>>)>>
    /\ LET u == Redone(state, historyRef, redoRef)
       IN  /\ state' = u.state
           /\ historyRef' = u.history
           /\ redoRef' = u.redo
    /\ Rendered
    /\ UNCHANGED <<typingRef, resetArmed, nextUid, testArgs, gestureVars>>

\* reorderByInsert(state.items, draggingIds, insertAt); out is what it returns
callReorderByInsert(draggingIds, insertAt) ==
    /\ CountOp
    /\ testOut' = <<CallRecord("reorderByInsert", draggingIds,
                               <<reorderByInsert(state.items, draggingIds, insertAt)>>)>>
    /\ UNCHANGED <<state, historyRef, redoRef, listDom, typingRef, resetArmed,
                   nextUid, testArgs, gestureVars>>

NextCalls ==
    \/ \E id \in CallIds : callDeleteItem(id)
    \/ \E id \in CallIds : callInsertEmptyAfterId(id)
    \/ callDoReset
    \/ callUndo
    \/ callRedo
    \/ \E S \in SUBSET (1..MaxLen), n \in 0..1 : callReorderByInsert(IdArray(S), n)

SpecCalls == InitCalls /\ [][NextCalls]_vars

\* a saved list's tile under MaxSwipes presses
MaxSwipes == 2
InitSwipe ==
    /\ state = DefaultState
    /\ historyRef = <<>>
    /\ redoRef = <<>>
    /\ typingRef = FALSE
    /\ resetArmed = FALSE
    /\ nextUid = 2
    /\ budget = MaxSwipes
    /\ dragRef = <<>>
    /\ longPressTimerRef = <<>>
    /\ clickSuppressRef = FALSE
    /\ clickListeners = 0
    /\ ghostRef = FALSE
    /\ ghosts = 0
    /\ upListeners = <<>>
    /\ cancelListener = FALSE
    /\ rafPending = FALSE
    /\ clickDue = <<>>
    /\ swipe = SwipeIdle
    /\ listDom = RenderedRows(state.items)
    /\ testArgs = <<>>
    /\ testOut = <<>>

NextSwipe ==
    \/ \E x \in {0, 5}, y \in {0} : swipePointerDown(x, y)
    \/ \E x \in SwipeXs, y \in SwipeYs : swipePointerMove(x, y)
    \/ swipePointerUp
    \/ swipePointerCancel
    \/ swipeDeleteTimer
    \/ swipeNullTimer

SpecSwipe == InitSwipe /\ [][NextSwipe]_vars

\* one press on a handle followed by moves near the place of the press, the
\* long-press timer, and the release; each move and each firing of the timer
\* is recorded in testOut with the gesture state it found and the one it left
MaxPresses == 2
NearXs == {0, DRAG_START_PX - 1}
NearYs == {PressY, PressY + DRAG_START_PX - 1, PressY + DRAG_START_PX,
           PressY + YStep, PressY + 3 * YStep}

InitPress ==
    /\ state \in {DefaultState} \cup PersistedStates
    /\ historyRef = <<>>
    /\ redoRef = <<>>
    /\ typingRef = FALSE
    /\ resetArmed = FALSE
    /\ nextUid = Len(state.items) + 1
    /\ budget = MaxPresses
    /\ InitGesture
    /\ listDom = RenderedRows(state.items)
    /\ InitTest

\* window "pointermove", recorded
callOnPointerMove(clientX, clientY) ==
    /\ NoClickDue
    /\ dragRef # <<>>
    /\ SetRefs(onPointerMoveOn(Refs, clientX, clientY))
    /\ testOut' = <<[fn |-> "onPointerMove", x |-> clientX, y |-> clientY,
                     before |-> Refs,
                     after |-> onPointerMoveOn(Refs, clientX, clientY)]>>
    /\ UNCHANGED <<state, historyRef, redoRef, typingRef, resetArmed, nextUid,
                   budget, longPressTimerRef, clickSuppressRef, clickListeners,
                   upListeners, cancelListener, rafPending, clickDue, swipe,
                   testArgs>>

\* the long-press timer fires, recorded
callLongPressTimer ==
    /\ NoClickDue
    /\ longPressTimerRef # <<>>
    /\ longPressTimerRef' = <<>>
    /\ SetRefs(longPressFired(Refs, longPressTimerRef[1]))
    /\ testOut' = <<[fn |-> "longPressTimer", x |-> 0, y |-> longPressTimerRef[1],
                     before |-> Refs,
                     after |-> longPressFired(Refs, longPressTimerRef[1])]>>
    /\ UNCHANGED <<state, historyRef, redoRef, typingRef, resetArmed, nextUid,
                   budget, clickSuppressRef, clickListeners, upListeners,
                   cancelListener, rafPending, clickDue, swipe, testArgs>>

NextPress ==
    \/ \E id \in Ids : onPointerDownHandle(id)
    \/ \E x \in NearXs, y \in NearYs : callOnPointerMove(x, y)
    \/ callLongPressTimer
    \/ pointerup
    \/ click
    \/ onPointerCancel
    \/ cleanupFrame

SpecPress == InitPress /\ [][NextPress]_vars

\* ------------------------------------------------------------ startup load
\* a value JSON.parse returns, as far as the load and the first render read
\* it: its type, its edit property when that is a boolean (else <<>>), the
\* type of its items property, and that property's elements when it is an array
JSValue(t, edit, itemsKind, items) ==
    [t |-> t, edit |-> edit, itemsKind |-> itemsKind, items |-> items]
JSDocument(s) == JSValue("object", <<s.edit>>, "array", s.items)

\* what localStorage.getItem returns: null, a text, or a text the application
\* wrote in an earlier session with JSON.stringify
NoEntry == [kind |-> "absent", text |-> "", saved |-> <<>>]
TextEntry(text) == [kind |-> "text", text |-> text, saved |-> <<>>]
SavedEntry(s) == [kind |-> "saved", text |-> "", saved |-> <<JSONstringify(s)>>]
ForeignTexts ==
    {"", "{", "null", "5", "[]", "{}", "{\"items\":5}", "{\"items\":[]}"}
StoredEntries ==
    {NoEntry} \cup {TextEntry(t) : t \in ForeignTexts}
        \cup {SavedEntry(s) : s \in {DefaultState} \cup PersistedStates}

\* raw ? ... : ...
Truthy(entry) == entry.kind = "saved" \/ (entry.kind = "text" /\ entry.text # "")

\* JSON.parse(raw): <<value>>, or <<>> when it throws a SyntaxError
JSONparseText(text) ==
    CASE text = "null" -> <<JSValue("null", <<>>, "undefined", <<>>)>>
      [] text = "5" -> <<JSValue("number", <<>>, "undefined", <<>>)>>
      [] text = "[]" -> <<JSValue("array", <<>>, "undefined", <<>>)>>
      [] text = "{}" -> <<JSValue("object", <<>>, "undefined", <<>>)>>
      [] text = "{\"items\":5}" -> <<JSValue("object", <<>>, "number", <<>>)>>
      [] text = "{\"items\":[]}" -> <<JSValue("object", <<>>, "array", <<>>)>>
      [] OTHER -> <<>>
JSONparseEntry(entry) ==
    IF entry.kind = "saved" THEN <<JSDocument(JSONparse(entry.saved[1]))>>
    ELSE JSONparseText(entry.text)

\* the argument App passes to usePersistentState, from LAST_VIEW_KEY
initialState(lastView) ==
    LET default == JSDocument(DefaultState)
        parsed == JSONparseEntry(lastView)
    IN  IF ~Truthy(lastView) THEN default
        ELSE IF parsed = <<>> THEN default
        \* obj.items of null throws a TypeError, which the catch swallows
        ELSE IF parsed[1].t = "null" THEN default
        ELSE IF parsed[1].itemsKind = "array"
             THEN JSValue("object",
                          IF parsed[1].edit # <<>> THEN parsed[1].edit ELSE <<TRUE>>,
                          "array", parsed[1].items)
             ELSE default

\* the initializer of useState<State> in usePersistentState, from STORAGE_KEY
loadState(storage, initial) ==
    IF ~Truthy(storage) THEN initial
    ELSE IF JSONparseEntry(storage) = <<>> THEN initial
    ELSE JSONparseEntry(storage)[1]

\* App's first render reads state.items and iterates over it
Renders(v) == v.itemsKind = "array"

InitLoad ==
    /\ testArgs \in {<<[storage |-> s, lastView |-> l]>> : s, l \in StoredEntries}
    /\ testOut = <<>>
    /\ state = DefaultState
    /\ historyRef = <<>>
    /\ redoRef = <<>>
    /\ typingRef = FALSE
    /\ resetArmed = FALSE
    /\ nextUid = 2
    /\ budget = 0
    /\ InitGesture
    /\ listDom = RenderedRows(state.items)

\* usePersistentState(initial) computes the first state
usePersistentStateInit ==
    /\ testOut = <<>>
    /\ testOut' = <<[fn |-> "load",
                     result |-> loadState(testArgs[1].storage,
                                          initialState(testArgs[1].lastView)),
                     rendered |-> <<>>]>>
    /\ UNCHANGED <<testArgs, appVars>>

\* App renders for the first time: <<TRUE>>, or <<FALSE>> when the render throws
firstRender ==
    /\ testOut # <<>>
    /\ testOut[1].rendered = <<>>
    /\ testOut' = <<[testOut[1] EXCEPT !.rendered = <<Renders(testOut[1].result)>>]>>
    /\ UNCHANGED <<testArgs, appVars>>

NextLoad ==
    \/ usePersistentStateInit
    \/ firstRender

SpecLoad == InitLoad /\ [][NextLoad]_vars

\* ------------------------------------------------------------------ claims
Last(s) == s[Len(s)]
Ids_(items) == [k \in DOMAIN items |-> items[k].id]
\* ids of the unchecked items in display order
DisplayUnchecked(items) ==
    Ids_(SelectSeq(sortUncheckedFirst(items), LAMBDA it : ~it.checked))
\* the pointer is released while a drag is active and a placeholder is in the list
Dragging == dragRef # <<>> /\ dragRef[1].started
Committing ==
    /\ upListeners # <<>>
    /\ Dragging
    /\ finalizePlaceholder(listDom, dragRef[1].draggingIds) # <<>>
lastInsertionIndex == finalizePlaceholder(listDom, dragRef[1].draggingIds)[1]
DragCommit == Committing /\ pointerup

\* in the display order of the unchecked items the drag set takes the places
\* k + 1 .. k + n: it is contiguous and exactly k non-dragged items precede it
PlacedAt(items, draggingIds, k) ==
    LET U == DisplayUnchecked(items)
    IN  {i \in DOMAIN U : Includes(draggingIds, U[i])}
            = (k + 1)..(k + Len(draggingIds))

\* C1: after a drag commit the drag set is contiguous in the display order of
\* the unchecked items and is preceded by exactly insertionIndex non-dragged
\* unchecked items, also when checked items are interleaved in the sequence
C1_PlacedAtInsertionIndex ==
    [][DragCommit =>
          PlacedAt(state'.items, dragRef[1].draggingIds, lastInsertionIndex)]_vars

\* a drag was committed on a document with a checked item between unchecked
\* ones, and it changed the order of the items
C1_Witness ==
    /\ rafPending
    /\ historyRef # <<>>
    /\ LET before == JSONparse(Last(historyRef)).items
       IN  /\ \E k \in 2..(Len(before) - 1) :
                 /\ before[k].checked
                 /\ ~before[k - 1].checked
                 /\ ~before[k + 1].checked
           /\ Ids_(before) # Ids_(state.items)

\* C2: pointer-up in DRAGGING pushes a snapshot equal to the pre-drag document
\* and then makes the document moveGroupAndUncheck(items, dragSet,
\* lastInsertionIndex); no pointer-move and no long-press timer firing changes
\* the document or the history stacks.  (No key or button operation runs while
\* a gesture record exists, so the pre-drag document is the one at pointer-up.)
C2_CommitSnapshotsPreDragDocument ==
    [][/\ DragCommit =>
            /\ historyRef' = PushedHistory(historyRef, state)
            /\ Last(historyRef') = JSONstringify(state)
            /\ redoRef' = <<>>
            /\ state'.edit = state.edit
            /\ state'.items = reorderAndUncheck(state.items,
                                                dragRef[1].draggingIds,
                                                lastInsertionIndex)
       /\ (\E x \in PointerXs, y \in PointerYs : onPointerMove(x, y))
             \/ longPressTimer
          => UNCHANGED <<state, historyRef, redoRef>>]_vars

\* what C2 says of the move and the timer alone
C2_MoveAndTimerLeaveDocument ==
    [][(\E x \in PointerXs, y \in PointerYs : onPointerMove(x, y))
          \/ longPressTimer
       => UNCHANGED <<state, historyRef, redoRef>>]_vars

\* a drag was committed after the document had been edited since an earlier,
\* cancelled press: the snapshot on top of the undo stack is not the document
\* the drag started from
C2_Witness ==
    /\ rafPending
    /\ Len(historyRef) >= 2
    /\ Ids_(JSONparse(Last(historyRef)).items) # Ids_(state.items)
    /\ \E k \in DOMAIN state.items :
          /\ k \in DOMAIN JSONparse(Last(historyRef)).items
          /\ JSONparse(Last(historyRef)).items[k].text # state.items[k].text

\* undo followed at once by redo gives back the document and both stacks
RedoUndoes(s, h, r) ==
    LET u == Undone(s, h, r)
        v == Redone(u.state, u.history, u.redo)
    IN  v.state = s /\ v.history = h /\ v.redo = r
\* the step pushes a snapshot of the document it starts from
Pushing == historyRef' = PushedHistory(historyRef, state) /\ redoRef' = <<>>

\* C3: history round trip: after a snapshot of d0 is pushed and the document
\* is mutated to d1, undo makes the document d0 and a redo right after it
\* makes it d1 again, with both stacks as they were before the undo
C3_HistoryRoundTrip ==
    [][/\ Pushing => Undone(state', historyRef', redoRef').state = state
       /\ historyRef' # <<>> => RedoUndoes(state', historyRef', redoRef')]_vars

\* a document that was mutated after its snapshot was pushed, with an earlier
\* undo still on the redo stack
C3_Witness ==
    /\ historyRef # <<>>
    /\ redoRef # <<>>
    /\ JSONparse(Last(historyRef)) # state
    /\ \E k \in DOMAIN state.items : state.items[k].selected = <<TRUE>>

\* the steps the history manager has to record
TextEdit == \E id \in Ids, text \in Texts : setItemTextById(id, text)
ToggleChecked == \E id \in Ids : toggleCheckedById(id)
InsertRow == \E id \in Ids : insertEmptyAfterId(id)
Delete == \E id \in Ids : deleteItem(id)

\* C4: no branching history: after one or more undos any fresh edit (set item
\* text, toggle checked, insert row, delete, drag commit, reset) empties the
\* redo stack
C4_FreshEditEmptiesRedo ==
    [][TextEdit \/ ToggleChecked \/ InsertRow \/ Delete \/ DragCommit \/ doReset
       => redoRef' = <<>>]_vars

\* an edit was made after an undo and the redo stack still holds the undone
\* document
C4_Witness ==
    /\ redoRef # <<>>
    /\ typingRef
    /\ historyRef = <<>>
    /\ \A k \in DOMAIN redoRef : JSONparse(redoRef[k]) # state
    /\ budget = MaxOps - 3

\* the two documents differ in the text of the item id at most
SameExceptText(a, b, id) ==
    /\ a.edit = b.edit
    /\ Len(a.items) = Len(b.items)
    /\ \A k \in DOMAIN a.items :
          IF a.items[k].id = id
          THEN [a.items[k] EXCEPT !.text = ""] = [b.items[k] EXCEPT !.text = ""]
          ELSE a.items[k] = b.items[k]

\* C6: undo-unit batching: in a typing session only the first set-item-text
\* pushes a snapshot (of the document before that keystroke), and the one undo
\* after a burst of keystrokes in a field restores the document as it was
\* before the burst, which differs from the current one in nothing but that
\* field's text
C6_TypingBurstIsOneUndoStep ==
    [][\A id \in Ids, text \in Texts :
          setItemTextById(id, text) =>
             /\ IF typingRef THEN UNCHANGED <<historyRef, redoRef>>
                ELSE /\ Pushing
                     /\ Undone(state', historyRef', redoRef').state = state
             /\ historyRef' # <<>>
             /\ SameExceptText(Undone(state', historyRef', redoRef').state,
                               state', id)]_vars

\* keystrokes went into two fields and the undo stack holds one snapshot
C6_Witness ==
    /\ typingRef
    /\ Len(historyRef) = 1
    /\ LET before == JSONparse(Last(historyRef)).items
       IN  /\ Len(before) = Len(state.items)
           /\ Cardinality({k \in DOMAIN before :
                              before[k].text # state.items[k].text}) = 2

\* C7: toggle-checked, delete, drag commit and insert-row each push a snapshot
\* of the current document immediately before applying their change, so one
\* undo right after any of them restores exactly the pre-operation document
C7_SnapshotBeforeEachMutation ==
    [][ToggleChecked \/ Delete \/ DragCommit \/ InsertRow =>
          /\ Pushing
          /\ Undone(state', historyRef', redoRef').state = state]_vars

\* an item was checked or unchecked and the undo stack is still empty
C7_Witness ==
    /\ historyRef = <<>>
    /\ redoRef = <<>>
    /\ ~state.edit
    /\ budget = MaxOps - 2
    /\ \E k \in DOMAIN state.items :
          state.items[k].checked /\ state.items[k].id = 1

\* the history keeps the last n of the snapshots pushed, in push order
LastN(s, n) == SubSeq(s, Max(1, Len(s) - n + 1), Len(s))
\* a step that pushes: a selection toggle, or the first keystroke of a session
PushStep ==
    \/ \E id \in Ids, v \in BOOLEAN : toggleSelected(id, v)
    \/ ~typingRef /\ TextEdit

\* C5: the undo stack never holds more than HISTORY_LIMIT snapshots; a push
\* onto a full stack drops the oldest, so the stack holds the most recent
\* HISTORY_LIMIT snapshots in push order
C5_HistoryBound ==
    [][/\ Len(historyRef') <= HISTORY_LIMIT
       /\ PushStep =>
             historyRef' = LastN(Append(historyRef, JSONstringify(state)),
                                 HISTORY_LIMIT)]_vars

\* the stack is full and the snapshot of the first document, whose item was
\* never selected or deselected, has been dropped
C5_Witness ==
    /\ Len(historyRef) = HISTORY_LIMIT
    /\ JSONparse(Head(historyRef)).items[1].selected # Undefined
    /\ redoRef = <<>>

\* the call under test and its arguments
Called(fn) == testOut # <<>> /\ testOut[1].fn = fn
ArgItems == testArgs[1].items
ArgIds == Range(testArgs[1].draggingIds)
ArgInsertAt == testArgs[1].insertAt
Result == testOut[1].result
\* the positions of the moving and of the other items, in their original order
MovedAt == SelectSeq([k \in DOMAIN ArgItems |-> k], LAMBDA k : ArgItems[k].id \in ArgIds)
RemainderAt == SelectSeq([k \in DOMAIN ArgItems |-> k], LAMBDA k : ArgItems[k].id \notin ArgIds)
ClampedPos ==
    IF ArgInsertAt < 0 THEN 0
    ELSE IF ArgInsertAt > Len(RemainderAt) THEN Len(RemainderAt)
    ELSE ArgInsertAt

\* C8: reorderByInsert returns remainder[0..pos) ++ moved ++ remainder[pos..)
\* with pos the clamped insertAt, moved and remainder in their original order;
\* the multiset of ids is preserved and the moved items are one contiguous block
C8_MoveGroupLayout ==
    Called("reorderByInsert") =>
        /\ Len(Result) = Len(ArgItems)
        /\ \A i \in 1..Len(RemainderAt) :
              Result[IF i <= ClampedPos THEN i ELSE i + Len(MovedAt)]
                  = ArgItems[RemainderAt[i]]
        /\ \A i \in 1..Len(MovedAt) :
              Result[ClampedPos + i] = ArgItems[MovedAt[i]]
        /\ \A id \in 1..MaxLen :
              Cardinality({k \in DOMAIN Result : Result[k].id = id})
                  = Cardinality({k \in DOMAIN ArgItems : ArgItems[k].id = id})
        /\ \A i, j \in DOMAIN Result :
              Result[i].id \in ArgIds /\ Result[j].id \in ArgIds =>
                 \A k \in i..j : Result[k].id \in ArgIds

\* a block of two items was moved down between two others
C8_Witness ==
    /\ Called("reorderByInsert")
    /\ Len(ArgItems) >= 3
    /\ MovedAt = <<1, 3>>
    /\ ClampedPos = 1
    /\ Result[2].id = 1 /\ Result[3].id = 3

\* C9: reorderByInsert clamps: an insertAt below 0 gives what 0 gives, and an
\* insertAt above the length of the remainder gives the block at the end
C9_MoveGroupClamps ==
    Called("reorderByInsert") =>
        /\ ArgInsertAt < 0 =>
              Result = reorderByInsert(ArgItems, testArgs[1].draggingIds, 0)
        /\ ArgInsertAt > Len(RemainderAt) =>
              /\ Result = reorderByInsert(ArgItems, testArgs[1].draggingIds,
                                          Len(RemainderAt))
              /\ \A i \in 1..Len(MovedAt) :
                    Result[Len(RemainderAt) + i] = ArgItems[MovedAt[i]]

\* a negative insertAt put the moved item in front of the others
C9_Witness ==
    /\ Called("reorderByInsert")
    /\ ArgInsertAt < 0
    /\ Len(ArgItems) >= 2
    /\ MovedAt = <<Len(ArgItems)>>
    /\ Result[1].id = Len(ArgItems)

\* C10: reorderAndUncheck gives every moved item checked = false and no
\* checkedAt, whatever it had before
C10_MovedItemsUnchecked ==
    Called("reorderAndUncheck") =>
        \A k \in DOMAIN Result :
            Result[k].id \in ArgIds =>
                ~Result[k].checked /\ Result[k].checkedAt = Undefined

\* a checked item that carries _checkedAt was moved
C10_Witness ==
    /\ Called("reorderAndUncheck")
    /\ \E k \in DOMAIN ArgItems :
          /\ ArgItems[k].id \in ArgIds
          /\ ArgItems[k].checked
          /\ ArgItems[k].checkedAt # Undefined

\* the positions of the unchecked and of the checked items of the argument
UncheckedAt == SelectSeq([k \in DOMAIN ArgItems |-> k], LAMBDA k : ~ArgItems[k].checked)
CheckedAt == SelectSeq([k \in DOMAIN ArgItems |-> k], LAMBDA k : ArgItems[k].checked)
\* the checkedAt of an item, undefined counted as 0
SortKey(it) == IF it.checkedAt = <<>> THEN 0 ELSE it.checkedAt[1]
\* where the item stood in the argument
PlaceInArg(it) == CHOOSE k \in DOMAIN ArgItems : ArgItems[k] = it

CheckedAtIffChecked(items) ==
    \A k \in DOMAIN items : items[k].checked <=> items[k].checkedAt # Undefined
ItemById(items, id) == items[FindIndex(items, id)]

\* C12: each item has checkedAt present if and only if it is checked: no
\* operation takes a document that has this property to one that has not, and
\* a toggle sets checkedAt when it checks an item and clears it when it
\* unchecks one
C12_CheckedAtIffChecked ==
    [][/\ CheckedAtIffChecked(state.items) => CheckedAtIffChecked(state'.items)
       /\ \A id \in Ids :
             toggleCheckedById(id) =>
                (ItemById(state'.items, id).checked
                    <=> ItemById(state'.items, id).checkedAt # Undefined)]_vars

\* in view mode the third item is checked and has no checkedAt
C12_Witness ==
    /\ ~state.edit
    /\ \E k \in DOMAIN state.items :
          /\ state.items[k].id = 3
          /\ state.items[k].checked
          /\ state.items[k].checkedAt = Undefined

\* no two items of the document have the same id
UniqueIds(items) ==
    \A i, j \in DOMAIN items : items[i].id = items[j].id => i = j

\* C13: item ids are unique within the document in every reachable state,
\* after any sequence of insert-row, multi-line paste, delete, toggle, drag
\* commit, reset, undo and redo (uid() hands out fresh ids)
C13_UniqueIds == UniqueIds(state.items)

\* a multi-line paste into the default document added a second row
C13_Witness ==
    /\ Len(state.items) = 2
    /\ state.items[1].id = 1 /\ state.items[2].id = 2
    /\ state.items[2].text = "a"
    /\ typingRef
    /\ Len(historyRef) = 1
    /\ JSONparse(historyRef[1]) = DefaultState

\* the place of the item id in the display order of the items
DisplayPlace(items, id) == FindIndex(sortUncheckedFirst(items), id)

\* C14: toggling an unchecked item to checked puts it, in display order, in
\* the checked region behind every item that was checked before the toggle
C14_CheckedAppearsLast ==
    [][\A id \in Ids :
          toggleCheckedById(id) /\ ~ItemOf(id).checked =>
             /\ ItemById(state'.items, id).checked
             /\ \A k \in DOMAIN state.items :
                   state.items[k].checked =>
                      DisplayPlace(state'.items, state.items[k].id)
                          < DisplayPlace(state'.items, id)]_vars

\* the first item was checked after the second and is shown in front of it
C14_Witness ==
    /\ ~state.edit
    /\ budget = MaxOps - 2
    /\ Len(state.items) = 3
    /\ state.items[1].checked /\ state.items[2].checked /\ ~state.items[3].checked
    /\ DisplayPlace(state.items, 1) < DisplayPlace(state.items, 2)

C19_PressWhileDraggingIgnored ==
    [][(Dragging /\ \E id \in Ids : onPointerDownHandle(id))
          => /\ UNCHANGED dragRef
             /\ finalizePlaceholder(listDom', dragRef'[1].draggingIds)
                    = finalizePlaceholder(listDom, dragRef[1].draggingIds)]_vars
\* a second press has replaced the record of a drag whose placeholder and ghost
\* are still in the page
C19_Witness ==
    /\ dragRef # <<>>
    /\ ~dragRef[1].started
    /\ FirstPh(listDom) # 0
    /\ ghosts = 1

\* no gesture is in progress and nothing a gesture creates is left in the page
GestureIdle ==
    /\ dragRef = <<>>
    /\ ~ghostRef
    /\ ghosts = 0
    /\ FirstPh(listDom) = 0
    /\ \A k \in DOMAIN listDom : ~listDom[k].collapsed
    /\ longPressTimerRef = <<>>
    /\ ~clickSuppressRef
    /\ clickListeners = 0

\* C16: a pointer-cancel in PRESSED or DRAGGING leaves the document and both
\* stacks unchanged and clears all transient gesture state (gesture record,
\* ghost, placeholder and collapsed marks, long-press timer, click suppressor)
C16_CancelClearsGesture ==
    [][(dragRef # <<>> /\ onPointerCancel)
          => UNCHANGED <<state, historyRef, redoRef>> /\ GestureIdle']_vars
\* a cancelled gesture has left a ghost, a placeholder or a click suppressor
C16_Witness ==
    /\ dragRef = <<>>
    /\ ~cancelListener
    /\ upListeners # <<>>
    /\ ghosts + clickListeners > 0

\* the pointer is released on a gesture that has not turned into a drag
Tap == dragRef # <<>> /\ ~dragRef[1].started /\ pointerup

\* C17: a pointer-up in PRESSED is a plain tap: the document and both stacks
\* are unchanged (no reorder), the click suppressor installed at pointer-down
\* is removed, the long-press timer is cleared and no gesture record is left
C17_TapChangesNothing ==
    [][Tap => /\ UNCHANGED <<state, historyRef, redoRef>>
              /\ dragRef' = <<>>
              /\ longPressTimerRef' = <<>>
              /\ clickSuppressRef /\ ~clickSuppressRef'
              /\ clickListeners' = clickListeners - 1]_vars
\* a tap has just ended while the document holds history to lose
C17_Witness ==
    /\ dragRef = <<>>
    /\ upListeners = <<>>
    /\ cancelListener
    /\ ~rafPending
    /\ ghosts = 0
    /\ historyRef # <<>>
    /\ budget = 0

ArgOriginal == testArgs[1].original
ArgCursor == testArgs[1].cursor
ArgPasted == testArgs[1].pasted
\* the places of the line feeds of s, ascending
LineFeeds(s) == SelectSeq([i \in 1..Len(s) |-> i], LAMBDA i : SubSeq(s, i, i) = "\n")
\* the k-th line of s: what stands between two neighbouring line feeds, without
\* the carriage return that makes the closing line feed a CRLF
LineOf(s, k) ==
    LET lf == LineFeeds(s)
        a == IF k = 1 THEN 0 ELSE lf[k - 1]
        b == IF k <= Len(lf) THEN lf[k] ELSE Len(s) + 1
        crlf == k <= Len(lf) /\ b - 1 > a /\ SubSeq(s, b - 1, b - 1) = "\r"
    IN  SubSeq(s, a + 1, IF crlf THEN b - 2 ELSE b - 1)
\* s split on LF or CRLF with the empty lines discarded
NonEmptyLines(s) ==
    SelectSeq([k \in 1..(Len(LineFeeds(s)) + 1) |-> LineOf(s, k)], LAMBDA l : l # "")

DragClick == clickDue # <<>> /\ clickDue[1].drag /\ click

\* C18: the click that follows the pointer-up of a gesture that turned into a
\* drag is suppressed: it performs no click action, so the document and both
\* stacks are as the pointer-up left them
C18_DragClickSuppressed ==
    [][DragClick => UNCHANGED <<state, historyRef, redoRef>>]_vars
\* a drag has been committed, the click of its gesture is due at the select box
\* of a row still shown, and no click suppressor is registered
C18_Witness ==
    /\ clickDue # <<>>
    /\ clickDue[1].drag
    /\ historyRef # <<>>
    /\ rafPending
    /\ clickListeners = 0
    /\ EditableRow(clickDue[1].id)
    /\ budget > 0

\* the pasted text begins with a line break
BeginsWithLineBreak(s) == Len(LineFeeds(s)) > 0 /\ LineOf(s, 1) = ""

\* C21: pasteMerge with a pasted text that begins with a line break leaves the
\* field text unchanged and returns every non-empty pasted line as rest
C21_LeadingLineBreakKeepsField ==
    (Called("pasteMerge") /\ BeginsWithLineBreak(ArgPasted))
        => /\ Result.first = ArgOriginal
           /\ Result.rest = NonEmptyLines(ArgPasted)
\* pasteMerge("foo", 3, CRLF + "x" + LF + "x") has merged the first pasted line
\* into the field
C21_Witness ==
    /\ Called("pasteMerge")
    /\ ArgOriginal = "foo"
    /\ ArgCursor = 3
    /\ ArgPasted = "\r\nx\nx"
    /\ Result = [first |-> "foox", rest |-> <<"x">>]

Before == testOut[1].before
Arg == testOut[1].arg
\* the call pushed one snapshot of the document it saw
PushedSnapshot ==
    /\ Len(historyRef) = Len(Before.history) + 1
    /\ SubSeq(historyRef, 1, Len(Before.history)) = Before.history
    /\ JSONparse(Last(historyRef)) = Before.state
\* the call left the document and both stacks as they were
NothingChanged ==
    /\ state = Before.state
    /\ historyRef = Before.history
    /\ redoRef = Before.redo
\* items without its k-th element
Without(items, k) == SubSeq(items, 1, k - 1) \o SubSeq(items, k + 1, Len(items))

\* C22: deleteItem(id) in view mode leaves the document, the undo stack and the
\* redo stack unchanged; in edit mode it pushes a snapshot and removes exactly
\* the item with that id, the other items and their order kept
C22_DeleteItem ==
    Called("deleteItem") =>
        IF ~Before.state.edit THEN NothingChanged
        ELSE /\ PushedSnapshot
             /\ state.edit
             /\ \A k \in DOMAIN Before.state.items :
                   Before.state.items[k].id = Arg
                       => state.items = Without(Before.state.items, k)
\* deleteItem was called in view mode for an item of the document, with both
\* stacks non-empty
C22_Witness ==
    /\ Called("deleteItem")
    /\ ~Before.state.edit
    /\ FindIndex(Before.state.items, Arg) = 2
    /\ Len(Before.state.items) = 3
    /\ Before.history # <<>>
    /\ Before.redo # <<>>

\* C23: insertEmptyAfterId(id) in edit mode with id present pushes a snapshot;
\* the new document is the old one with exactly one new item (fresh id, empty
\* text, unchecked) directly after the item id in the underlying sequence, the
\* other items unchanged and in the same order; the new item is the one the
\* call asks to focus
C23_InsertEmptyAfter ==
    (/\ Called("insertEmptyAfterId")
     /\ Before.state.edit
     /\ FindIndex(Before.state.items, Arg) # 0)
        => LET old == Before.state.items
               k == FindIndex(old, Arg)
               new == state.items[k + 1]
           IN  /\ PushedSnapshot
               /\ state.edit
               /\ Len(state.items) = Len(old) + 1
               /\ Without(state.items, k + 1) = old
               /\ \A j \in DOMAIN old : old[j].id # new.id
               /\ new.text = ""
               /\ ~new.checked
               /\ testOut[1].out = <<new.id>>
\* a row was inserted after the first of three items, the second one checked
C23_Witness ==
    /\ Called("insertEmptyAfterId")
    /\ Before.state.edit
    /\ Len(Before.state.items) = 3
    /\ Before.state.items[2].checked
    /\ Arg = 1
    /\ Len(state.items) = 4
    /\ state.items[2].text = ""

\* C24: doReset() pushes a snapshot of the current document and replaces the
\* document with exactly one blank unchecked item and edit = true; an undo
\* right after it restores the document as it was before the reset
C24_Reset ==
    Called("doReset") =>
        /\ PushedSnapshot
        /\ state.edit
        /\ Len(state.items) = 1
        /\ state.items[1].text = ""
        /\ ~state.items[1].checked
        /\ state.items[1].selected = Undefined
        /\ state.items[1].checkedAt = Undefined
        /\ Undone(state, historyRef, redoRef).state = Before.state
\* a view-mode document of three items, one checked with a timestamp and one
\* selected, was reset
C24_Witness ==
    /\ Called("doReset")
    /\ ~Before.state.edit
    /\ Len(Before.state.items) = 3
    /\ Before.state.items[1].selected = <<TRUE>>
    /\ Before.state.items[2].checkedAt = <<2>>
    /\ Before.history # <<>>
    /\ state.edit

\* no id of the array ids is the id of an item
NoneIn(ids, items) == \A k \in DOMAIN ids : FindIndex(items, ids[k]) = 0

\* C25: insertEmptyAfterId and deleteItem with an id that is not in the
\* document leave the document unchanged, and reorderByInsert with moving ids
\* none of which is in the document returns the items unchanged
C25_IdNotFoundKeepsDocument ==
    /\ (/\ Called("insertEmptyAfterId") \/ Called("deleteItem")
        /\ FindIndex(Before.state.items, Arg) = 0)
           => state = Before.state
    /\ (/\ Called("reorderByInsert")
        /\ NoneIn(Arg, Before.state.items))
           => testOut[1].out = <<Before.state.items>>
\* insertEmptyAfterId(3) was called in edit mode on a document of items 1 and 2
C25_Witness ==
    /\ Called("insertEmptyAfterId")
    /\ Before.state.edit
    /\ Len(Before.state.items) = 2
    /\ Arg = 3
    /\ Len(historyRef) = Len(Before.history) + 1

\* C27: undo() with an empty undo stack and redo() with an empty redo stack
\* leave the document, the undo stack and the redo stack unchanged
C27_EmptyStackNoOp ==
    /\ (Called("undo") /\ Before.history = <<>>) => NothingChanged
    /\ (Called("redo") /\ Before.redo = <<>>) => NothingChanged
\* undo() was called with an empty undo stack and a non-empty redo stack
C27_Witness ==
    /\ Called("undo")
    /\ Before.history = <<>>
    /\ Before.redo # <<>>
    /\ Len(Before.state.items) = 2

\* the value has an edit flag and an array of items
IsDocumentShape(v) == v.t = "object" /\ v.edit # <<>> /\ v.itemsKind = "array"
\* the entry is absent, unparseable, or parses to something that is no document
NoDocumentIn(entry) ==
    \/ entry.kind = "absent"
    \/ JSONparseEntry(entry) = <<>>
    \/ ~IsDocumentShape(JSONparseEntry(entry)[1])

\* C26: when what is persisted is absent, unparseable, or parseable but not of
\* Document shape, the initial document is the default one (one blank
\* unchecked item, edit = true) and the first render does not fail
C26_StartupFallsBackToDefault ==
    (/\ Called("load")
     /\ NoDocumentIn(testArgs[1].storage)
     /\ NoDocumentIn(testArgs[1].lastView))
        => /\ testOut[1].result = JSDocument(DefaultState)
           /\ testOut[1].rendered # <<FALSE>>
\* the stored text was "null", no last view was stored: the state is null and
\* the first render has thrown
C26_Witness ==
    /\ Called("load")
    /\ testArgs[1].storage = TextEntry("null")
    /\ testArgs[1].lastView = NoEntry
    /\ testOut[1].result.t = "null"
    /\ testOut[1].rendered = <<FALSE>>

\* the onDelete calls a step schedules (the 200 ms timers it starts)
DeletesScheduled == swipe'.deleteTimers - swipe.deleteTimers
\* the release is past the threshold: last tracked x minus start x is more
\* than 35% of the width
ReleasedPastThreshold == swipe.ref # <<>> /\ OverThreshold(swipe.ref[1])

\* C28: a pointer-up invokes onDelete if and only if the rightward displacement
\* (last tracked x minus start x) is greater than 35% of the width, and then
\* once; a release at or below the threshold (any leftward swipe included)
\* returns the offset to 0 and invokes nothing
C28_SwipeDeletesPastThreshold ==
    [][swipePointerUp =>
          /\ DeletesScheduled = IF ReleasedPastThreshold THEN 1 ELSE 0
          /\ ~ReleasedPastThreshold => swipe'.offsetX = 0]_vars

\* two presses have registered two sets of listeners and the pointer has been
\* moved past the threshold: the pointer-up runs handlePointerUp twice
C28_Witness ==
    /\ swipe.sets = 2
    /\ ReleasedPastThreshold
    /\ swipe.deleteTimers = 0
    /\ swipe.deleted = 0

\* C29: once the first movement past the 8 px start threshold was
\* vertical-dominant (|dy| > |dx|), no later pointer-move or pointer-up of
\* that gesture changes the swipe offset or invokes onDelete
C29_VerticalMoveCancelsSwipe ==
    [][(/\ swipe.cancelled
        /\ swipePointerUp \/ \E x \in SwipeXs, y \in SwipeYs : swipePointerMove(x, y))
          => /\ swipe'.offsetX = swipe.offsetX
             /\ DeletesScheduled = 0]_vars
\* the pointer of a gesture a vertical movement had cancelled has been lifted
C29_Witness ==
    /\ swipe.cancelled
    /\ swipe.pointers = 0
    /\ swipe.ref # <<>>
    /\ swipe.nullTimers = 0
    /\ swipe.sets = 0

\* the drag set is a non-empty set of ids of unchecked items of the document,
\* and the document is in edit mode
DragSetEligible ==
    dragRef # <<>> =>
        /\ state.edit
        /\ dragRef[1].draggingIds # <<>>
        /\ \A k \in DOMAIN dragRef[1].draggingIds :
              \E j \in DOMAIN state.items :
                 /\ state.items[j].id = dragRef[1].draggingIds[k]
                 /\ ~state.items[j].checked

\* C30: a gesture record is created only by a pointer-down in edit mode on an
\* item that is present and unchecked, so none is created in view mode or on
\* a checked item; in every reachable state the drag set is a non-empty set
\* of ids of unchecked items of the current document
C30_DragEligibility ==
    /\ []DragSetEligible
    /\ [][(dragRef = <<>> /\ dragRef' # <<>>)
             => /\ state.edit
                /\ \E id \in Ids :
                      /\ onPointerDownHandle(id)
                      /\ \E j \in DOMAIN state.items :
                            state.items[j].id = id /\ ~state.items[j].checked
                      /\ Includes(dragRef'[1].draggingIds, id)]_vars
\* two selected rows are being dragged in a document that holds a checked item
C30_Witness ==
    /\ Dragging
    /\ Len(dragRef[1].draggingIds) = 2
    /\ \E j \in DOMAIN state.items : state.items[j].checked

\* the places in the document of the selected unchecked items
SelectedUncheckedAt ==
    {k \in DOMAIN state.items :
        state.items[k].selected = <<TRUE>> /\ ~state.items[k].checked}

\* C31: at pointer-down, if the pressed item is selected and more than one
\* unchecked item is selected, the drag set is all selected unchecked items in
\* their document order; otherwise the drag set is exactly the pressed item,
\* even if other items are selected
C31_DragSetRule ==
    [][\A id \in Ids :
          onPointerDownHandle(id) =>
             LET D == dragRef'[1].draggingIds
             IN  IF /\ FindIndex(state.items, id) \in SelectedUncheckedAt
                    /\ Cardinality(SelectedUncheckedAt) > 1
                 THEN /\ Len(D) = Cardinality(SelectedUncheckedAt)
                      /\ \A i \in DOMAIN D :
                            FindIndex(state.items, D[i]) \in SelectedUncheckedAt
                      /\ \A i, j \in DOMAIN D :
                            i < j => FindIndex(state.items, D[i])
                                        < FindIndex(state.items, D[j])
                 ELSE D = <<id>>]_vars
\* a row that is not selected was pressed while two other rows are selected
C31_Witness ==
    /\ dragRef # <<>>
    /\ Len(dragRef[1].draggingIds) = 1
    /\ Cardinality(SelectedUncheckedAt) = 2
    /\ FindIndex(state.items, dragRef[1].draggingIds[1]) \notin SelectedUncheckedAt

\* what the recorded move or timer found and what it left
Found == testOut[1].before
Left == testOut[1].after
\* the gesture found was pressed and not yet started
FoundPressed == Found.drag # <<>> /\ ~Found.drag[1].started
\* the distance of the recorded move from the place of the press
MoveDistance ==
    Max(Abs(testOut[1].x - Found.drag[1].startX),
        Abs(testOut[1].y - Found.drag[1].startY))
\* the drag was started: startDrag made the ghost and set the started flag
Started ==
    /\ Left.drag # <<>>
    /\ Left.drag[1].started
    /\ Left.ghosts = Found.ghosts + 1

\* C32: while the gesture is pressed and not yet started, a pointer-move
\* starts the drag exactly when max(|dx|, |dy|) >= DRAG_START_PX, and the
\* long-press timer starts it when it fires; a move below the threshold does
\* not start it; a move or a timer that finds the drag started does not start
\* it again, and nothing else starts a drag
C32_DragStart ==
    /\ testOut # <<>> =>
          /\ (Called("onPointerMove") /\ FoundPressed)
                => IF MoveDistance >= DRAG_START_PX THEN Started ELSE Left = Found
          /\ (Called("longPressTimer") /\ FoundPressed) => Started
          /\ ~FoundPressed
                => /\ Left.ghosts = Found.ghosts
                   /\ Left.drag # <<>> => Left.drag[1].started
    /\ dragRef # <<>> /\ dragRef[1].started => testOut # <<>>
\* a move of DRAG_START_PX - 1 in both directions has left the gesture pressed
C32_Witness ==
    /\ Called("onPointerMove")
    /\ FoundPressed
    /\ MoveDistance = DRAG_START_PX - 1
    /\ testOut[1].x # Found.drag[1].startX
    /\ testOut[1].y # Found.drag[1].startY
    /\ dragRef # <<>>
    /\ ~dragRef[1].started

\* a long-press timer is pending only while a gesture record exists, and it is
\* the timer of the press that made the record
TimerOfCurrentPress ==
    longPressTimerRef # <<>> =>
        /\ dragRef # <<>>
        /\ longPressTimerRef[1] = dragRef[1].startY

\* C33: the long-press timer is single-shot and superseded by real events:
\* once a gesture has ended by pointer-up or pointer-cancel, or a new
\* pointer-down has begun, the timer of the earlier press is not pending any
\* more, and no step taken while the controller is IDLE starts a drag
C33_TimerSuperseded ==
    /\ []TimerOfCurrentPress
    /\ [][/\ longPressTimer => longPressTimerRef' = <<>>
          /\ (pointerup \/ onPointerCancel) => longPressTimerRef' = <<>>
          /\ dragRef = <<>> =>
                /\ ghosts' <= ghosts
                /\ dragRef' # <<>> => ~dragRef'[1].started]_vars
\* a press was cancelled; its timer is gone with it
C33_Witness ==
    /\ dragRef = <<>>
    /\ longPressTimerRef = <<>>
    /\ ~cancelListener
    /\ upListeners # <<>>
    /\ ghosts = 0
    /\ FirstPh(listDom) = 0
    /\ clickListeners = 0

\* the recorded move found the gesture DRAGGING
FoundDragging == Found.drag # <<>> /\ Found.drag[1].started
\* the rows of the list that are not in the drag set, by their places in the
\* list the move found
OtherRows ==
    SelectSeq([k \in DOMAIN Found.dom |-> k],
              LAMBDA k : /\ ~Found.dom[k].ph
                         /\ ~Includes(Found.drag[1].draggingIds, Found.dom[k].id))
\* the pointer did not move upward since the previous move
MovedDown == testOut[1].y >= Found.drag[1].lastY
\* the row's leading edge for a downward move, its vertical midpoint else
ThresholdOf(k) ==
    IF MovedDown THEN RectTop(Found.dom, k)
    ELSE RectTop(Found.dom, k) + RectHeight(Found.dom, k) \div 2
\* the lower edge of the dragged block less one row's height for a downward
\* move, the pointer else
ProbeAt(k) ==
    IF MovedDown
    THEN (testOut[1].y - Found.drag[1].offsetY) + Found.drag[1].totalH
            - Min(RectHeight(Found.dom, k), ROW_H)
    ELSE testOut[1].y
RowsPassed == {i \in DOMAIN OtherRows : ProbeAt(OtherRows[i]) > ThresholdOf(OtherRows[i])}
\* the insertion index the placeholder stands at after the move
CandidateIndex == finalizePlaceholder(Left.dom, Found.drag[1].draggingIds)

\* C34: in DRAGGING a pointer-move puts the candidate insertion index at the
\* number of non-dragged rows whose threshold the probe has passed (leading
\* edge for a downward move, vertical midpoint for an upward one): it is in
\* 0..n for the n non-dragged rows, 0 when no threshold is passed and n when
\* all are
C34_CandidateIndex ==
    (Called("onPointerMove") /\ FoundDragging) =>
        /\ CandidateIndex = <<Cardinality(RowsPassed)>>
        /\ CandidateIndex[1] \in 0..Len(OtherRows)
\* a move in a drag whose press replaced an earlier drag: the row of the
\* earlier drag is still collapsed, is not in the drag set, and is not counted
C34_Witness ==
    /\ Called("onPointerMove")
    /\ FoundDragging
    /\ Len(OtherRows) = 2
    /\ \E i \in DOMAIN OtherRows : Found.dom[OtherRows[i]].collapsed
    /\ Cardinality(RowsPassed) = 2
    /\ CandidateIndex = <<1>>

\* the events that are to end a typing session (a blur runs no code)
EndsSession ==
    \/ InsertRow
    \/ Delete
    \/ \E id \in Ids : onPointerDownHandle(id)
    \/ toggleEdit
    \/ ToggleChecked
    \/ doReset
    \/ undo
    \/ redo

\* C35: the Enter key and an unrelated action (delete, drag press, edit-mode
\* toggle, toggle checked, reset, undo, redo) end the typing session: the
\* session is not active after any of them, and a keystroke that finds no
\* active session pushes a snapshot of the document before it
C35_SessionEndedByActions ==
    [][/\ EndsSession => ~typingRef'
       /\ (TextEdit /\ ~typingRef) => Pushing]_vars
\* a keystroke, then an undo: the session is still active, the undone
\* document is on the redo stack and the undo stack is empty
C35_Witness ==
    /\ typingRef
    /\ redoRef # <<>>
    /\ historyRef = <<>>
    /\ budget = MaxOps - 2

\* C36: handlers left registered by an earlier gesture never act on a later
\* one: the pointer-up listeners that run on a gesture are those of its own
\* press, which close over the current document, and a drag commit pushes
\* exactly one snapshot, equal to the document at the time of the commit
C36_GestureIsolation ==
    [][/\ (dragRef # <<>> /\ pointerup)
             => \A k \in DOMAIN upListeners : upListeners[k] = state
       /\ DragCommit => historyRef' = Append(historyRef, JSONstringify(state))]_vars
\* a drag is about to be committed while the pointer-up listener of an
\* earlier, cancelled press is still registered; the document was edited since
C36_Witness ==
    /\ Committing
    /\ Len(upListeners) = 2
    /\ upListeners[1] # state
    /\ upListeners[2] = state
    /\ cancelListener

\* C37: under any interleaving of snapshot pushes, undo and redo the undo
\* stack never holds more than HISTORY_LIMIT snapshots, although redo pushes
\* onto it without trimming, and the undo and the redo stack together never
\* hold more than HISTORY_LIMIT
C37_StacksBounded ==
    /\ Len(historyRef) <= HISTORY_LIMIT
    /\ Len(historyRef) + Len(redoRef) <= HISTORY_LIMIT
\* HISTORY_LIMIT pushes filled the undo stack and one undo moved a snapshot to
\* the redo stack, from where a redo pushes it back untrimmed
C37_Witness ==
    /\ Len(historyRef) = HISTORY_LIMIT - 1
    /\ Len(redoRef) = 1
    /\ budget = HistOps - HISTORY_LIMIT - 1

\* C38: reorderAndUncheck gives every moved item selected = false and leaves
\* its id and text; every item that is not moved is returned with all its
\* fields (text, checked, checkedAt, selected) unchanged; the order of the
\* result is that of reorderByInsert with the same arguments
C38_MoveGroupAndUncheckFrame ==
    Called("reorderAndUncheck") =>
        LET order == reorderByInsert(ArgItems, testArgs[1].draggingIds, ArgInsertAt)
        IN  /\ Ids_(Result) = Ids_(order)
            /\ \A k \in DOMAIN Result :
                  LET was == ItemById(ArgItems, Result[k].id)
                  IN  IF Result[k].id \in ArgIds
                      THEN /\ Result[k].selected = <<FALSE>>
                           /\ Result[k].text = was.text
                      ELSE Result[k] = was
\* a selected item was moved behind a selected one and a checked one, which
\* stayed as they were
C38_Witness ==
    /\ Called("reorderAndUncheck")
    /\ Len(ArgItems) = 3
    /\ ArgIds = {1}
    /\ ArgItems[1].selected = <<TRUE>>
    /\ ArgItems[2].selected = <<TRUE>>
    /\ ArgItems[3].checked /\ ArgItems[3].checkedAt = <<2>>
    /\ Ids_(Result) = <<2, 3, 1>>

\* the text is blank: it holds nothing but spaces
OnlySpaces(text) == \A i \in 1..Len(text) : SubSeq(text, i, i) = " "
\* the places of the items whose text is not blank
NonBlankAt(items) ==
    SelectSeq([k \in DOMAIN items |-> k], LAMBDA k : ~OnlySpaces(items[k].text))

\* C39: the edit-mode toggle flips the mode; leaving edit mode removes every
\* item whose text is blank and keeps all other items unchanged in the same
\* order, entering edit mode keeps all items; in both directions the toggle
\* ends the typing session and changes neither the undo nor the redo stack
C39_EditModeToggle ==
    [][toggleEdit =>
          /\ state'.edit = ~state.edit
          /\ IF state.edit
             THEN LET keep == NonBlankAt(state.items)
                  IN  /\ Len(state'.items) = Len(keep)
                      /\ \A i \in DOMAIN keep : state'.items[i] = state.items[keep[i]]
             ELSE state'.items = state.items
          /\ ~typingRef'
          /\ UNCHANGED <<historyRef, redoRef>>]_vars
\* an empty row was inserted after the first of three items and edit mode was
\* left: the three items are there, the empty row is not
C39_Witness ==
    /\ ~state.edit
    /\ Ids_(state.items) = <<1, 2, 3>>
    /\ nextUid = 5
    /\ Len(historyRef) = 1
    /\ budget = MaxOps - 2

\* C40: after any sequence of operations starting from the default document
\* the document contains at least one item
C40_DocumentNeverEmpty == Len(state.items) >= 1
\* edit mode was left on the default document: no item, nothing to undo
C40_Witness ==
    /\ state.items = <<>>
    /\ ~state.edit
    /\ historyRef = <<>>
    /\ redoRef = <<>>
    /\ nextUid = 2

====
